---- MODULE Spec2Model ----
(***************************************************************************)
(* Model of the PRiMe metrics computation and normalization engine:       *)
(* the Revision Normalizer (parse_vcs + DB.write_df), the Size            *)
(* Aggregator, the Productivity Calculator and the Issue Spoilage Engine. *)
(*                                                                         *)
(* Timestamps are integers counting seconds; a calendar day d starts at   *)
(* d * SecondsPerDay.  DataFrames are sequences of records; a DataFrame   *)
(* whose index matters carries it in the field "index", a persisted table *)
(* row carries its primary key in the field "id".                         *)
(***************************************************************************)
EXTENDS Integers, Sequences, FiniteSets, TLC

VARIABLES
    pc,                               \* which handler stage the run is at
    now,                              \* Timestamp.utcnow()
    repo,                             \* the revisions of the repository, oldest first
    tags,                             \* the commit hash every tag of the repository resolves to
    data,                             \* the DataFrames of the dictionary data of parse_vcs
    commit_hashes,                    \* table commit_hashes
    authors,                          \* table authors
    committers,                       \* table committers
    releases,                         \* table releases
    commit_logs,                      \* table commit_logs
    scc_runs,                         \* what SCC.run() measures at each commit
    file_size_per_commit,             \* table file_size_per_commit
    project_size_per_commit,          \* table project_size_per_commit
    project_size_per_day,             \* table project_size_per_day
    project_productivity_per_commit,  \* table project_productivity_per_commit
    project_productivity_per_day,     \* table project_productivity_per_day
    issues,                           \* table issues
    issue_spoilage_per_day,           \* table issue_spoilage_per_day
    bus_factor,                       \* table bus_factor
    checked_out,                      \* the revision the working tree is at
    branch_tip,                       \* the most recent revision of the repository
    rows_done,                        \* commit_hashes rows the per-commit loop has finished
    size_frames,                      \* the frames the per-commit loop has collected
    vcs_calls,                        \* the calls made on the VCS and SCC collaborators
    write_log,                        \* the DB.write_df calls made on the Normalizer tables and how each ended
    tracker,                          \* the pages of issues the issue tracker serves
    issue_pages,                      \* handle_issues: data, the page frames fetched so far
    after_cursor,                     \* handle_issues: after_cursor
    has_next_page,                    \* handle_issues: has_next_page
    page_requests,                    \* the get_issues requests made and the status each got
    issue_ids,                        \* table issue_ids
    metric                            \* the live Metric object: its class and its DataFrame fields

\* the variables of the bus factor stage
busVars == <<bus_factor>>

\* the variables of the per-commit loop of the Size Aggregator
checkoutVars == <<checked_out, branch_tip, rows_done, size_frames, vcs_calls>>

\* the variables of the table writes of the Normalizer stage
writeVars == <<write_log>>

\* the variables of the issue fetch stage
fetchVars == <<tracker, issue_pages, after_cursor, has_next_page,
               page_requests, issue_ids>>

\* the variables of a metric object
metricVars == <<metric>>

vars == <<pc, now, repo, tags, data, commit_hashes, authors, committers,
          releases, commit_logs, scc_runs, file_size_per_commit,
          project_size_per_commit, project_size_per_day,
          project_productivity_per_commit, project_productivity_per_day,
          issues, issue_spoilage_per_day, busVars,
          checkoutVars, writeVars, fetchVars, metricVars>>

(***************************************************************************)
(* Bounds of the model.                                                    *)
(***************************************************************************)
MaxCommits == 3
MaxDay == 3
MaxIssues == 2
MaxRevisions == 3
MaxTags == 1
MaxReleaseTags == 2
MaxPages == 3
MaxPageIssues == 2
MaxIssueDay == 5
SizeValues == {10, 15, 20}

(***************************************************************************)
(* Calendar arithmetic.                                                    *)
(***************************************************************************)
SecondsPerDay == 86400
\* pandas NaN / NaT / None: a value outside every column's range
NaN == -999999999

\* Metric.__init__: input_data and computed_data start as DataFrame()
Metric(class) ==
    [class |-> class, input_data |-> << >>, computed_data |-> << >>]

\* no metric object has been constructed
NoMetric == Metric("none")

\* no per-commit loop is running
NoCheckout ==
    /\ checked_out = NaN
    /\ branch_tip = NaN
    /\ rows_done = 0
    /\ size_frames = << >>
    /\ vcs_calls = << >>

\* no issue fetch has begun
NoFetch ==
    /\ tracker = << >>
    /\ issue_pages = << >>
    /\ after_cursor = "null"
    /\ has_next_page = TRUE
    /\ page_requests = << >>
    /\ issue_ids = << >>

\* Timestamp(ts_input=x, tz="UTC").floor(freq="D")
to_utc_date(x) == IF x = NaN THEN NaN ELSE x - (x % SecondsPerDay)

\* pd.date_range(start, end, freq="D"): start, start + 1 day, ... while <= end
date_range(start, end) ==
    [k \in 1..(IF end >= start THEN ((end - start) \div SecondsPerDay) + 1 ELSE 0)
        |-> start + (k - 1) * SecondsPerDay]

DayStart(d) == d * SecondsPerDay
DayOf(ts) == ts \div SecondsPerDay

\* the time of day at which a stage runs
NowTimeOfDay == SecondsPerDay - 1

\* the time of day of the i-th commit of a history: 00:00:00 or 23:59:59
CommitTimeOfDay(i) == IF i % 2 = 1 THEN 0 ELSE SecondsPerDay - 1

(***************************************************************************)
(* DataFrame helpers.                                                      *)
(***************************************************************************)
\* the rows of s whose position is in keep, in order
RECURSIVE SelectByIndex(_, _)
SelectByIndex(s, keep) ==
    IF s = << >> THEN << >>
    ELSE SelectByIndex(SubSeq(s, 1, Len(s) - 1), keep)
            \o (IF Len(s) \in keep THEN << s[Len(s)] >> ELSE << >>)

RECURSIVE SumCode(_)
SumCode(rows) ==
    IF rows = << >> THEN 0 ELSE rows[1].code + SumCode(Tail(rows))

\* DataFrame.reset_index(drop=True) / ignore_index=True: labels 0, 1, 2, ...
reset_index(df) == [i \in DOMAIN df |-> [df[i] EXCEPT !.index = i - 1]]

\* a DataFrame row as the table row DataFrame.to_sql(index=True,
\* index_label="id") inserts: the index label becomes the primary key
ToSqlRow(r) ==
    [f \in (DOMAIN r \ {"index"}) \cup {"id"} |->
        IF f = "id" THEN r.index ELSE r[f]]

\* DB.write_df: append the rows under their index labels; a primary-key
\* collision (IntegrityError) appends nothing
write_df_ok(table, df) ==
    /\ \A i \in DOMAIN df : \A j \in DOMAIN table : df[i].index # table[j].id
    /\ \A i, j \in DOMAIN df : i # j => df[i].index # df[j].index

\* a write_df that appends the rows that do not collide
write_df_partial(table, df) ==
    table \o [i \in DOMAIN SelectSeq(df, LAMBDA r :
                  \A j \in DOMAIN table : r.index # table[j].id) |->
                ToSqlRow(SelectSeq(df, LAMBDA r :
                  \A j \in DOMAIN table : r.index # table[j].id)[i])]

write_df(table, df) ==
    IF write_df_ok(table, df)
    THEN table \o [i \in DOMAIN df |-> ToSqlRow(df[i])]
    ELSE table

\* DB.read_table: the rows with the primary key as the index
read_table(table) ==
    [i \in DOMAIN table |->
        [f \in (DOMAIN table[i] \ {"id"}) \cup {"index"} |->
            IF f = "index" THEN table[i].id ELSE table[i][f]]]

(***************************************************************************)
(* Revision Normalizer.                                                    *)
(***************************************************************************)
\* the commit hash of the i-th revision of a history
HashOf(i) == 100 + i

\* Commit.message as the bytes of the commit object: 7-bit text, text with a
\* two-byte character, and bytes that do not decode as UTF-8
Utf8Message == << 102, 105, 120 >>
NonAsciiMessage == << 195, 169 >>
UndecodableMessage == << 255 >>

\* byte b is a UTF-8 continuation byte 80..BF
IsContinuation(b) == b >= 128 /\ b <= 191

\* the bytes decode as UTF-8, as the str fields of the pydantic models
\* require of a bytes value: every character is a lead byte 00..7F, C2..DF,
\* E0..EF or F0..F4 followed by one, two or three continuation bytes, with
\* no overlong form, no surrogate and nothing above U+10FFFF
RECURSIVE IsUtf8(_)
IsUtf8(bytes) ==
    IF bytes = << >> THEN TRUE
    ELSE LET b == bytes[1]
             n == Len(bytes)
         IN  IF b < 128 THEN IsUtf8(Tail(bytes))
             ELSE IF b >= 194 /\ b <= 223
             THEN /\ n >= 2
                  /\ IsContinuation(bytes[2])
                  /\ IsUtf8(SubSeq(bytes, 3, n))
             ELSE IF b >= 224 /\ b <= 239
             THEN /\ n >= 3
                  /\ IsContinuation(bytes[2])
                  /\ IsContinuation(bytes[3])
                  /\ (b = 224 => bytes[2] >= 160)
                  /\ (b = 237 => bytes[2] <= 159)
                  /\ IsUtf8(SubSeq(bytes, 4, n))
             ELSE IF b >= 240 /\ b <= 244
             THEN /\ n >= 4
                  /\ IsContinuation(bytes[2])
                  /\ IsContinuation(bytes[3])
                  /\ IsContinuation(bytes[4])
                  /\ (b = 240 => bytes[2] >= 144)
                  /\ (b = 244 => bytes[2] <= 143)
                  /\ IsUtf8(SubSeq(bytes, 5, n))
             ELSE FALSE

\* Git.parse_revisions: DataFrame(data=data), one row per revision, labelled
\* 0, 1, 2, ... in revision order
parse_revisions(revisions) ==
    [i \in DOMAIN revisions |->
        [f \in DOMAIN revisions[i] \cup {"index"} |->
            IF f = "index" THEN i - 1 ELSE revisions[i][f]]]

\* Git.get_release_revisions: the hashes of the tags that resolve to a commit
get_release_revisions(tag_hashes) ==
    LET resolved == SelectSeq(tag_hashes, LAMBDA h : h # NaN)
    IN  [i \in DOMAIN resolved |-> [index |-> i - 1, commit_hash_id |-> resolved[i]]]

\* df[~df[column].isin(values)]: the rows keep their labels
not_isin(df, column, values) ==
    SelectSeq(df, LAMBDA r : r[column] \notin values)

copy_dataframe_columns_to_dataframe(df, columns) ==
    [i \in DOMAIN df |-> [f \in columns \cup {"index"} |-> df[i][f]]]

\* drop_duplicates(subset=column, keep="first", ignore_index=True)
remove_duplicate_dataframe_rows(df, column) ==
    reset_index(SelectByIndex(df,
        {i \in DOMAIN df : \A j \in DOMAIN df : j < i => df[j][column] # df[i][column]}))

\* the columns copied, every row kept and relabelled
copy_dataframe_cols_keep_duplicates(df, keep_columns, unique_column) ==
    reset_index(copy_dataframe_columns_to_dataframe(df, keep_columns))

copy_dataframe_cols_and_remove_duplicate_rows_by_col(df, keep_columns, unique_column) ==
    remove_duplicate_dataframe_rows(
        copy_dataframe_columns_to_dataframe(df, keep_columns), unique_column)

\* df_2.reset_index().set_index(df_2_col)["index"].to_dict(), looked up at
\* value: the label of the last row holding the value, None when no row does
value_to_index(df_2, df_2_col, value) ==
    LET rows == {i \in DOMAIN df_2 : df_2[i][df_2_col] = value}
    IN  IF rows = {} THEN NaN
        ELSE df_2[CHOOSE i \in rows : \A j \in rows : j <= i].index

replace_dataframe_value_column_with_index_reference(df_1, df_2, df_1_col, df_2_col) ==
    [i \in DOMAIN df_1 |->
        [df_1[i] EXCEPT ![df_1_col] = value_to_index(df_2, df_2_col, @)]]

\* json.dumps of a list of references: the list as one JSON string
dumps(obj) == [json |-> obj]

\* every value of the list becomes {df_2_col: label}; an empty list stays
\* empty
replace_list_keep_empty(df_1, df_2, df_1_col, df_2_col) ==
    [i \in DOMAIN df_1 |->
        [df_1[i] EXCEPT ![df_1_col] =
            dumps([k \in DOMAIN @ |->
                [f \in {df_2_col} |-> value_to_index(df_2, df_2_col, @[k])]])]]

\* every value of the list becomes {df_2_col: label}; an empty list becomes
\* the one-element list [{df_2_col: None}]; the list is stored as its JSON
\* string
replace_dataframe_value_column_with_index_reference_list(df_1, df_2, df_1_col, df_2_col) ==
    [i \in DOMAIN df_1 |->
        [df_1[i] EXCEPT ![df_1_col] =
            dumps(IF @ = << >> THEN << [f \in {df_2_col} |-> NaN] >>
                  ELSE [k \in DOMAIN @ |->
                          [f \in {df_2_col} |->
                              value_to_index(df_2, df_2_col, @[k])]])]]

\* DataFrame.dropna(how="any", ignore_index=True) on the releases
dropna(df) == reset_index(SelectSeq(df, LAMBDA r : r.commit_hash_id # NaN))

\* DataFrame.drop(columns=["author", "committer", "co_authors"]) and
\* DataFrame.rename to the column names of the commit_logs schema
rename_commit_log(df) ==
    [i \in DOMAIN df |->
        [index |-> df[i].index,
         commit_hash_id |-> df[i].commit_hash,
         author_id |-> df[i].author_email,
         committer_id |-> df[i].committer_email,
         co_author_ids |-> df[i].co_author_emails,
         parent_hash_ids |-> df[i].parents,
         committed_datetime |-> df[i].committed_datetime,
         message |-> df[i].message]]

\* parse_vcs: the revisions and releases that are not stored yet, and the
\* commit_hashes frame copied from them; the call that follows names the
\* arguments of copy_dataframe_cols_and_remove_duplicate_rows_by_col
\* columns= and checkColumn=, which the function (keep_columns,
\* unique_column) does not take, and raises TypeError.  Without revisions
\* parse_revisions returns DataFrame(data=[]), a frame without columns, and
\* the filter on its commit_hash column raises KeyError before anything is
\* copied: the dictionary data is still empty and the releases are not
\* filtered.  The value is what parse_vcs holds when it raises; nothing is
\* returned.
parse_vcs(revisions, tag_hashes, previous_revisions) ==
    LET previous == {previous_revisions[i].commit_hash : i \in DOMAIN previous_revisions}
        commit_log_df == not_isin(parse_revisions(revisions), "commit_hash", previous)
        releases_df == not_isin(get_release_revisions(tag_hashes),
                                "commit_hash_id", previous)
    IN  IF revisions = << >>
        THEN [raised |-> "KeyError",
              commit_log_df |-> parse_revisions(revisions),
              releases_df |-> get_release_revisions(tag_hashes),
              data |-> << >>]
        ELSE [raised |-> "TypeError",
              commit_log_df |-> commit_log_df,
              releases_df |-> releases_df,
              data |-> [commit_hashes |->
                          copy_dataframe_columns_to_dataframe(commit_log_df,
                                                              {"commit_hash"})]]

\* no frame of a run is held
NoData ==
    [commit_hashes |-> << >>, authors |-> << >>, committers |-> << >>,
     releases |-> << >>, commit_logs |-> << >>]

\* the pydantic models of the five tables of the Normalizer and of the two
\* issue tables: an int field rejects a missing value, a str field bytes
\* that are not UTF-8; a datetime field takes a Timestamp and NaT, both of
\* which are datetime objects
Validates(model, row) ==
    CASE model = "CommitHashes" -> TRUE
      [] model = "Authors" -> TRUE
      [] model = "Committers" -> TRUE
      [] model = "CommitLog" ->
            /\ row.commit_hash_id # NaN
            /\ row.author_id # NaN
            /\ row.committer_id # NaN
            /\ IsUtf8(row.message)
      [] model = "Releases" -> row.commit_hash_id # NaN
      [] model = "IssueIDs" -> TRUE
      [] model = "Issues" -> row.issue_id_key # NaN

\* validate_df: every row instantiates the model, otherwise ValidationError
validate_df(model, df) == \A i \in DOMAIN df : Validates(model, df[i])

\* the table a write_df call names
TableOf(table) ==
    CASE table = "commit_hashes" -> commit_hashes
      [] table = "authors" -> authors
      [] table = "committers" -> committers
      [] table = "commit_logs" -> commit_logs
      [] table = "releases" -> releases
      [] table = "issue_ids" -> issue_ids
      [] table = "issues" -> issues

\* handle_vcs: read the stored commit hashes and parse the repository
\* against them; parse_vcs raises TypeError, or KeyError on a history
\* without revisions, which nothing catches, so the handler ends before the
\* first of its db.write_df calls
handle_vcs ==
    /\ pc = "vcs"
    /\ parse_vcs(repo, tags, read_table(commit_hashes)).raised
          \in {"KeyError", "TypeError"}
    /\ pc' = "raised"
    /\ UNCHANGED <<now, repo, tags, data, commit_hashes, authors, committers,
                   releases, commit_logs, scc_runs, file_size_per_commit,
                   project_size_per_commit, project_size_per_day,
                   project_productivity_per_commit,
                   project_productivity_per_day,
                   issues, issue_spoilage_per_day>>
    /\ UNCHANGED busVars
    /\ UNCHANGED checkoutVars
    /\ UNCHANGED writeVars
    /\ UNCHANGED fetchVars
    /\ UNCHANGED metricVars

\* the people who author and commit revisions; two of them share an email
People ==
    { [name |-> "Alice", email |-> "a@x"],
      [name |-> "Al",    email |-> "a@x"],
      [name |-> "Bob",   email |-> "b@x"] }
WebFlow == [name |-> "GitHub", email |-> "noreply@x"]

\* Bob's revisions are committed through the web interface, everyone else
\* commits their own
CommitterOf(a) == IF a.email = "b@x" THEN WebFlow ELSE a

\* Alice's revisions carry a Co-authored-by trailer naming Bob, the others
\* carry none
CoAuthorsOf(a) ==
    IF a.name = "Alice" THEN << [name |-> "Bob", email |-> "b@x"] >> ELSE << >>

\* a new revision on top of the history: a root commit has no parent, every
\* other commit the revision before it
git_commit ==
    /\ pc = "vcs"
    /\ Len(repo) < MaxRevisions
    /\ \E a \in People :
          LET c  == CommitterOf(a)
              co == CoAuthorsOf(a) IN
          /\ repo' = Append(repo,
                [commit_hash |-> HashOf(Len(repo) + 1),
                 author |-> a.name, author_email |-> a.email,
                 committer |-> c.name, committer_email |-> c.email,
                 co_authors |-> [k \in DOMAIN co |-> co[k].name],
                 co_author_emails |-> [k \in DOMAIN co |-> co[k].email],
                 parents |-> IF repo = << >> THEN << >>
                             ELSE << HashOf(Len(repo)) >>,
                 committed_datetime |-> DayStart(Len(repo) + 1),
                 message |-> Utf8Message])
    /\ UNCHANGED <<pc, now, tags, data, commit_hashes, authors, committers,
                   releases, commit_logs, scc_runs, file_size_per_commit,
                   project_size_per_commit, project_size_per_day,
                   project_productivity_per_commit,
                   project_productivity_per_day,
                   issues, issue_spoilage_per_day>>
    /\ UNCHANGED busVars
    /\ UNCHANGED checkoutVars
    /\ UNCHANGED writeVars
    /\ UNCHANGED fetchVars
    /\ UNCHANGED metricVars

\* a new tag on the newest revision, or a tag that resolves to no commit
git_tag ==
    /\ pc = "vcs"
    /\ Len(tags) < MaxTags
    /\ repo # << >>
    /\ \E h \in {repo[Len(repo)].commit_hash, NaN} : tags' = Append(tags, h)
    /\ UNCHANGED <<pc, now, repo, data, commit_hashes, authors, committers,
                   releases, commit_logs, scc_runs, file_size_per_commit,
                   project_size_per_commit, project_size_per_day,
                   project_productivity_per_commit,
                   project_productivity_per_day,
                   issues, issue_spoilage_per_day>>
    /\ UNCHANGED busVars
    /\ UNCHANGED checkoutVars
    /\ UNCHANGED writeVars
    /\ UNCHANGED fetchVars
    /\ UNCHANGED metricVars

\* an empty repository and an empty store
InitVcs ==
    /\ pc = "vcs"
    /\ now = DayStart(MaxRevisions) + NowTimeOfDay
    /\ repo = << >>
    /\ tags = << >>
    /\ data = NoData
    /\ commit_hashes = << >>
    /\ authors = << >>
    /\ committers = << >>
    /\ releases = << >>
    /\ commit_logs = << >>
    /\ scc_runs = << >>
    /\ file_size_per_commit = << >>
    /\ project_size_per_commit = << >>
    /\ project_size_per_day = << >>
    /\ project_productivity_per_commit = << >>
    /\ project_productivity_per_day = << >>
    /\ issues = << >>
    /\ issue_spoilage_per_day = << >>
    /\ bus_factor = << >>
    /\ NoCheckout
    /\ write_log = << >>
    /\ NoFetch
    /\ metric = NoMetric

NextVcs == git_commit \/ git_tag \/ handle_vcs

SpecVcs == InitVcs /\ [][NextVcs]_vars

\* a commit that is not in the history of the checked-out branch
OffBranch == HashOf(0)

\* a linear history of n revisions by one author
LinearHistory(n) ==
    [i \in 1..n |->
        [commit_hash |-> HashOf(i),
         author |-> "Alice", author_email |-> "a@x",
         committer |-> "Alice", committer_email |-> "a@x",
         co_authors |-> << >>,
         co_author_emails |-> << >>,
         parents |-> IF i = 1 THEN << >> ELSE << HashOf(i - 1) >>,
         committed_datetime |-> DayStart(i),
         message |-> Utf8Message]]

\* the sequences of at most n elements of S
RECURSIVE SeqsUpTo(_, _)
SeqsUpTo(S, n) ==
    IF n = 0 THEN { << >> }
    ELSE LET shorter == SeqsUpTo(S, n - 1)
         IN  shorter \cup {Append(t, x) : t \in shorter, x \in S}

\* a repository of 1..MaxRevisions revisions and an empty store, as every run
\* finds it (no run gets to a write); the repository has up to MaxReleaseTags
\* tags, each on a revision of the branch, on a commit of another branch, or
\* resolving to no commit
InitTags ==
    \E n \in 1..MaxRevisions :
    \E t \in SeqsUpTo({HashOf(i) : i \in 1..n} \cup {OffBranch, NaN},
                      MaxReleaseTags) :
        /\ pc = "vcs"
        /\ now = DayStart(MaxRevisions) + NowTimeOfDay
        /\ repo = LinearHistory(n)
        /\ tags = t
        /\ data = NoData
        /\ commit_hashes = << >>
        /\ authors = << >>
        /\ committers = << >>
        /\ commit_logs = << >>
        /\ releases = << >>
        /\ scc_runs = << >>
        /\ file_size_per_commit = << >>
        /\ project_size_per_commit = << >>
        /\ project_size_per_day = << >>
        /\ project_productivity_per_commit = << >>
        /\ project_productivity_per_day = << >>
        /\ issues = << >>
        /\ issue_spoilage_per_day = << >>
        /\ bus_factor = << >>
        /\ NoCheckout
        /\ write_log = << >>
        /\ NoFetch
        /\ metric = NoMetric

NextTags == handle_vcs

SpecTags == InitTags /\ [][NextTags]_vars

(***************************************************************************)
(* The functions of utils.py and DB.write_df on their own.                 *)
(*                                                                         *)
(* No run of handle_vcs passes through the states of this part: parse_vcs  *)
(* calls copy_dataframe_cols_and_remove_duplicate_rows_by_col with the     *)
(* keywords columns= and checkColumn= (vcs.py:381), the function takes     *)
(* keep_columns and unique_column (utils.py:59), and the call raises       *)
(* TypeError; handle_vcs above is the run.  The actions below are calls of *)
(* the functions themselves, each with the parameters of its own           *)
(* signature, on frames of the shape parse_vcs has built by line 380 and   *)
(* on a database that starts empty.  Their states are states of the        *)
(* functions, not of a Normalizer run.                                     *)
(***************************************************************************)
\* copy_dataframe_cols_and_remove_duplicate_rows_by_col(df, keep_columns,
\* unique_column) of utils.py:59, called on a commit log frame once with the
\* author columns and once with the committer columns
apply_copy_dataframe_cols_and_remove_duplicate_rows_by_col ==
    /\ pc = "utils"
    /\ data' = [data EXCEPT
            !.authors = copy_dataframe_cols_and_remove_duplicate_rows_by_col(
                data.commit_logs, {"author", "author_email"}, "author_email"),
            !.committers = copy_dataframe_cols_and_remove_duplicate_rows_by_col(
                data.commit_logs, {"committer", "committer_email"},
                "committer_email")]
    /\ pc' = "index_reference"
    /\ UNCHANGED <<now, repo, tags, commit_hashes, authors, committers,
                   releases, commit_logs, scc_runs, file_size_per_commit,
                   project_size_per_commit, project_size_per_day,
                   project_productivity_per_commit,
                   project_productivity_per_day,
                   issues, issue_spoilage_per_day>>
    /\ UNCHANGED busVars
    /\ UNCHANGED checkoutVars
    /\ UNCHANGED writeVars
    /\ UNCHANGED fetchVars
    /\ UNCHANGED metricVars

\* replace_dataframe_value_column_with_index_reference(df_1, df_2, df_1_col,
\* df_2_col) of utils.py:88, called on a releases frame (rows without a
\* reference dropped) and on the commit_hash, author_email and
\* committer_email columns of a commit log frame
apply_replace_dataframe_value_column_with_index_reference ==
    /\ pc = "index_reference"
    /\ LET log1 == replace_dataframe_value_column_with_index_reference(
                      data.commit_logs, data.commit_hashes,
                      "commit_hash", "commit_hash")
           log2 == replace_dataframe_value_column_with_index_reference(
                      log1, data.authors, "author_email", "author_email")
           log3 == replace_dataframe_value_column_with_index_reference(
                      log2, data.committers,
                      "committer_email", "committer_email")
       IN  data' = [data EXCEPT
               !.releases = dropna(
                   replace_dataframe_value_column_with_index_reference(
                       data.releases, data.commit_hashes,
                       "commit_hash_id", "commit_hash")),
               !.commit_logs = log3]
    /\ pc' = "index_reference_list"
    /\ UNCHANGED <<now, repo, tags, commit_hashes, authors, committers,
                   releases, commit_logs, scc_runs, file_size_per_commit,
                   project_size_per_commit, project_size_per_day,
                   project_productivity_per_commit,
                   project_productivity_per_day,
                   issues, issue_spoilage_per_day>>
    /\ UNCHANGED busVars
    /\ UNCHANGED checkoutVars
    /\ UNCHANGED writeVars
    /\ UNCHANGED fetchVars
    /\ UNCHANGED metricVars

\* replace_dataframe_value_column_with_index_reference_list(df_1, df_2,
\* df_1_col, df_2_col) of utils.py:117, called on the co_author_emails and
\* parents columns of a commit log frame, then the columns dropped and
\* renamed to the commit_logs schema
apply_replace_dataframe_value_column_with_index_reference_list ==
    /\ pc = "index_reference_list"
    /\ LET log4 == replace_dataframe_value_column_with_index_reference_list(
                      data.commit_logs, data.authors,
                      "co_author_emails", "author_email")
           log5 == replace_dataframe_value_column_with_index_reference_list(
                      log4, data.commit_hashes, "parents", "commit_hash")
       IN  data' = [data EXCEPT !.commit_logs = rename_commit_log(log5)]
    /\ pc' = "frames"
    /\ UNCHANGED <<now, repo, tags, commit_hashes, authors, committers,
                   releases, commit_logs, scc_runs, file_size_per_commit,
                   project_size_per_commit, project_size_per_day,
                   project_productivity_per_commit,
                   project_productivity_per_day,
                   issues, issue_spoilage_per_day>>
    /\ UNCHANGED busVars
    /\ UNCHANGED checkoutVars
    /\ UNCHANGED writeVars
    /\ UNCHANGED fetchVars
    /\ UNCHANGED metricVars

\* the tables of the Normalizer; the pydantic model a write_df call is given
\* for each table
VcsTables == {"commit_hashes", "authors", "committers", "commit_logs", "releases"}

ModelOf(table) ==
    CASE table = "commit_hashes" -> "CommitHashes"
      [] table = "authors" -> "Authors"
      [] table = "committers" -> "Committers"
      [] table = "commit_logs" -> "CommitLog"
      [] table = "releases" -> "Releases"
      [] table = "issue_ids" -> "IssueIDs"
      [] table = "issues" -> "Issues"

\* what one DB.write_df call leaves in the table: validate_df raises before
\* to_sql runs, otherwise to_sql appends or fails as a whole
AfterWrite(table, df) ==
    IF validate_df(ModelOf(table), df) THEN write_df(TableOf(table), df)
    ELSE TableOf(table)

\* how one DB.write_df call ends: validate_df raises ValidationError, to_sql
\* hits an IntegrityError and the call returns False, or it returns True
WriteResult(table, df) ==
    IF ~validate_df(ModelOf(table), df) THEN "raised"
    ELSE IF write_df_ok(TableOf(table), df) THEN "True"
    ELSE "False"

\* DB.write_df(table, model, df) of db.py:258, called with one of the frames
\* and its table, each table at most once for one set of frames; a
\* ValidationError goes to the caller, which ends
DB_write_df ==
    /\ pc = "frames"
    /\ \E t \in VcsTables :
          /\ \A k \in DOMAIN write_log : write_log[k].table # t
          /\ write_log' = Append(write_log,
                [table |-> t, result |-> WriteResult(t, data[t])])
          /\ commit_hashes' = IF t = "commit_hashes"
                              THEN AfterWrite(t, data[t]) ELSE commit_hashes
          /\ authors' = IF t = "authors"
                        THEN AfterWrite(t, data[t]) ELSE authors
          /\ committers' = IF t = "committers"
                           THEN AfterWrite(t, data[t]) ELSE committers
          /\ commit_logs' = IF t = "commit_logs"
                            THEN AfterWrite(t, data[t]) ELSE commit_logs
          /\ releases' = IF t = "releases"
                         THEN AfterWrite(t, data[t]) ELSE releases
          /\ pc' = IF WriteResult(t, data[t]) = "raised" THEN "raised" ELSE pc
    /\ UNCHANGED <<now, repo, tags, data, scc_runs, file_size_per_commit,
                   project_size_per_commit, project_size_per_day,
                   project_productivity_per_commit,
                   project_productivity_per_day,
                   issues, issue_spoilage_per_day>>
    /\ UNCHANGED busVars
    /\ UNCHANGED checkoutVars
    /\ UNCHANGED fetchVars
    /\ UNCHANGED metricVars

\* the frames parse_vcs has built when it reaches the call that raises: the
\* commit log and the releases whose hash is not in previous_revisions, and
\* the commit_hashes frame
FramesAtRaise(revisions, tag_hashes, previous_revisions) ==
    LET p == parse_vcs(revisions, tag_hashes, previous_revisions)
    IN  [NoData EXCEPT !.commit_hashes = p.data.commit_hashes,
                       !.releases = p.releases_df,
                       !.commit_logs = p.commit_log_df]

\* the parents a revision can have: none (a root), the revision before it,
\* or, as a merge, the two revisions before it in either order
ParentChoices(i) ==
    { << >> }
    \cup (IF i > 1 THEN { << HashOf(i - 1) >> } ELSE {})
    \cup (IF i > 2 THEN { << HashOf(i - 1), HashOf(i - 2) >>,
                          << HashOf(i - 2), HashOf(i - 1) >> } ELSE {})

\* the Co-authored-by trailers a revision can carry: none, one, or two in
\* either order
CoAuthorChoices ==
    { << >>,
      << [name |-> "Bob", email |-> "b@x"] >>,
      << [name |-> "Bob", email |-> "b@x"], [name |-> "Al", email |-> "a@x"] >>,
      << [name |-> "Al", email |-> "a@x"], [name |-> "Bob", email |-> "b@x"] >> }

\* a previous_revisions argument of parse_vcs: a frame of the hashes of the
\* first m revisions, labelled from 0
PreviousRevisions(m) ==
    [i \in 1..m |-> [index |-> i - 1, commit_hash |-> HashOf(i)]]

\* the inputs of the list helpers: the frames parse_vcs builds from
\* 1..MaxRevisions revisions by Alice with any parents and co-authors and
\* from a previous_revisions frame of the first m of them; the database is
\* empty
InitLists ==
    \E n \in 1..MaxRevisions, m \in 0..MaxRevisions :
    \E parents \in [1..n -> UNION {ParentChoices(i) : i \in 1..n}],
       co \in [1..n -> CoAuthorChoices] :
        /\ m < n
        /\ \A i \in 1..n : parents[i] \in ParentChoices(i)
        /\ pc = "utils"
        /\ now = DayStart(MaxRevisions) + NowTimeOfDay
        /\ repo = [i \in 1..n |->
                [commit_hash |-> HashOf(i),
                 author |-> "Alice", author_email |-> "a@x",
                 committer |-> "Alice", committer_email |-> "a@x",
                 co_authors |-> [k \in DOMAIN co[i] |-> co[i][k].name],
                 co_author_emails |-> [k \in DOMAIN co[i] |-> co[i][k].email],
                 parents |-> parents[i],
                 committed_datetime |-> DayStart(i),
                 message |-> Utf8Message]]
        /\ tags = << >>
        /\ commit_hashes = << >>
        /\ authors = << >>
        /\ committers = << >>
        /\ commit_logs = << >>
        /\ releases = << >>
        /\ data = FramesAtRaise(repo, tags, PreviousRevisions(m))
        /\ scc_runs = << >>
        /\ file_size_per_commit = << >>
        /\ project_size_per_commit = << >>
        /\ project_size_per_day = << >>
        /\ project_productivity_per_commit = << >>
        /\ project_productivity_per_day = << >>
        /\ issues = << >>
        /\ issue_spoilage_per_day = << >>
        /\ bus_factor = << >>
        /\ NoCheckout
        /\ write_log = << >>
        /\ NoFetch
        /\ metric = NoMetric

NextLists ==
    \/ apply_copy_dataframe_cols_and_remove_duplicate_rows_by_col
    \/ apply_replace_dataframe_value_column_with_index_reference
    \/ apply_replace_dataframe_value_column_with_index_reference_list

SpecLists == InitLists /\ [][NextLists]_vars

\* the messages a commit can reach the commit log with
Messages == {Utf8Message, NonAsciiMessage, UndecodableMessage}

\* the revision person a commits as the i-th of a history, with message msg
RevisionBy(a, i, msg) ==
    LET c  == CommitterOf(a)
        co == CoAuthorsOf(a)
    IN  [commit_hash |-> HashOf(i),
         author |-> a.name, author_email |-> a.email,
         committer |-> c.name, committer_email |-> c.email,
         co_authors |-> [k \in DOMAIN co |-> co[k].name],
         co_author_emails |-> [k \in DOMAIN co |-> co[k].email],
         parents |-> IF i = 1 THEN << >> ELSE << HashOf(i - 1) >>,
         committed_datetime |-> DayStart(i),
         message |-> msg]

\* a linear history of 1..MaxRevisions revisions by any people, the newest
\* with any message and with or without a tag, and an empty database; the
\* first frames are those parse_vcs builds from the first m revisions, the
\* history as it was when they were taken, and from no previous revisions
InitWrite ==
    \E n \in 1..MaxRevisions, m \in 1..MaxRevisions :
    \E who \in [1..n -> People], msg \in Messages :
    \E t \in {<< >>, << HashOf(n) >>} :
        /\ m <= n
        /\ pc = "utils"
        /\ now = DayStart(MaxRevisions) + NowTimeOfDay
        /\ repo = [i \in 1..n |->
                RevisionBy(who[i], i, IF i = n THEN msg ELSE Utf8Message)]
        /\ tags = t
        /\ commit_hashes = << >>
        /\ authors = << >>
        /\ committers = << >>
        /\ commit_logs = << >>
        /\ releases = << >>
        /\ data = FramesAtRaise(SubSeq(repo, 1, m),
                                IF m = n THEN tags ELSE << >>,
                                read_table(commit_hashes))
        /\ scc_runs = << >>
        /\ file_size_per_commit = << >>
        /\ project_size_per_commit = << >>
        /\ project_size_per_day = << >>
        /\ project_productivity_per_commit = << >>
        /\ project_productivity_per_day = << >>
        /\ issues = << >>
        /\ issue_spoilage_per_day = << >>
        /\ bus_factor = << >>
        /\ NoCheckout
        /\ write_log = << >>
        /\ NoFetch
        /\ metric = NoMetric

\* the five frames have been handed to DB.write_df and the history has
\* revisions the commit_hashes table does not hold: read_table reads the
\* table back, and the frames parse_vcs builds from the whole history and
\* from the rows read are the next frames of the helpers
apply_read_table ==
    /\ pc = "frames"
    /\ \A t \in VcsTables : \E k \in DOMAIN write_log : write_log[k].table = t
    /\ FramesAtRaise(repo, tags, read_table(commit_hashes)).commit_logs # << >>
    /\ data' = FramesAtRaise(repo, tags, read_table(commit_hashes))
    /\ write_log' = << >>
    /\ pc' = "utils"
    /\ UNCHANGED <<now, repo, tags, commit_hashes, authors, committers,
                   releases, commit_logs, scc_runs, file_size_per_commit,
                   project_size_per_commit, project_size_per_day,
                   project_productivity_per_commit,
                   project_productivity_per_day,
                   issues, issue_spoilage_per_day>>
    /\ UNCHANGED busVars
    /\ UNCHANGED checkoutVars
    /\ UNCHANGED fetchVars
    /\ UNCHANGED metricVars

NextWrite ==
    \/ apply_copy_dataframe_cols_and_remove_duplicate_rows_by_col
    \/ apply_replace_dataframe_value_column_with_index_reference
    \/ apply_replace_dataframe_value_column_with_index_reference_list
    \/ DB_write_df
    \/ apply_read_table

SpecWrite == InitWrite /\ [][NextWrite]_vars

(***************************************************************************)
(* Size Aggregator.                                                        *)
(***************************************************************************)
\* FileSizePerCommit.compute: for every commit_hashes row, check the revision
\* out, run scc on the tree, tag the rows with the row's index
RECURSIVE FileSizePerCommit_compute(_, _)
FileSizePerCommit_compute(hashes, tree) ==
    IF hashes = << >> THEN << >>
    ELSE LET n    == Len(hashes)
             last == hashes[n]
             scc  == tree[last.commit_hash]
         IN  reset_index(
               FileSizePerCommit_compute(SubSeq(hashes, 1, n - 1), tree)
                 \o [k \in DOMAIN scc |->
                       [index |-> 0, commit_hash_id |-> last.index,
                        code |-> scc[k].code]])

\* ProjectSizePerCommit.compute: group the file rows by commit_hash_id
\* (groups in ascending key order), sum the numeric columns
GroupKeys(rows) == {rows[i].commit_hash_id : i \in DOMAIN rows}

RECURSIVE SortedKeys(_)
SortedKeys(S) ==
    IF S = {} THEN << >>
    ELSE LET m == CHOOSE x \in S : \A y \in S : x <= y
         IN  << m >> \o SortedKeys(S \ {m})

ProjectSizePerCommit_compute(file_rows) ==
    LET keys == SortedKeys(GroupKeys(file_rows))
    IN  [i \in DOMAIN keys |->
            [index |-> i - 1,
             commit_hash_id |-> keys[i],
             code |-> SumCode(SelectSeq(file_rows,
                        LAMBDA r : r.commit_hash_id = keys[i]))]]

\* SELECT ... FROM <p> JOIN commit_logs c ON p.commit_hash_id = c.commit_hash_id
\* with committed_datetime floored to the day
RECURSIVE JoinCommitLogs(_, _)
JoinCommitLogs(p, c) ==
    IF p = << >> THEN << >>
    ELSE LET n == Len(p)
             m == SelectSeq(c, LAMBDA r : r.commit_hash_id = p[n].commit_hash_id)
         IN  JoinCommitLogs(SubSeq(p, 1, n - 1), c)
               \o [k \in DOMAIN m |->
                     [f \in (DOMAIN p[n] \ {"id", "commit_hash_id"})
                            \cup {"index", "committed_datetime"} |->
                        IF f = "index" THEN p[n].id
                        ELSE IF f = "committed_datetime"
                             THEN to_utc_date(m[k].committed_datetime)
                             ELSE p[n][f]]]

\* drop_duplicates(subset="committed_datetime", keep="first",
\* ignore_index=True): the first commit of each day instead of the last
drop_duplicates_keep_first(df) ==
    reset_index(SelectByIndex(df,
        {i \in DOMAIN df :
            \A j \in DOMAIN df :
                j < i => df[j].committed_datetime # df[i].committed_datetime}))

\* DataFrame.drop_duplicates(subset="committed_datetime", keep="last",
\* ignore_index=True)
drop_duplicates_keep_last(df) ==
    reset_index(SelectByIndex(df,
        {i \in DOMAIN df :
            \A j \in DOMAIN df :
                j > i => df[j].committed_datetime # df[i].committed_datetime}))

ProjectSizePerDay_preprocess(p, c) ==
    drop_duplicates_keep_last(JoinCommitLogs(p, c))

\* DataFrame.ffill on the code column
RECURSIVE ffill(_)
ffill(df) ==
    IF Len(df) <= 1 THEN df
    ELSE LET n    == Len(df)
             head == ffill(SubSeq(df, 1, n - 1))
         IN  head \o << IF df[n].code = NaN
                        THEN [df[n] EXCEPT !.code = head[n - 1].code]
                        ELSE df[n] >>

\* ProjectSizePerDay.compute: reindex on the daily range from the first row's
\* date to the current date, then flood fill
ProjectSizePerDay_compute(input_data, utcnow) ==
    LET oldest_date  == input_data[1].committed_datetime
        current_date == to_utc_date(utcnow)
        range        == date_range(oldest_date, current_date)
        At(d) == {i \in DOMAIN input_data : input_data[i].committed_datetime = d}
        reindexed ==
            [k \in DOMAIN range |->
                [index |-> k - 1,
                 date  |-> range[k],
                 code  |-> IF At(range[k]) = {} THEN NaN
                           ELSE input_data[CHOOSE i \in At(range[k]) : TRUE].code]]
    IN  ffill(reindexed)

(***************************************************************************)
(* Productivity Calculator.                                                *)
(***************************************************************************)
\* the difference from the first row instead of from the row before
diff_from_first(col) ==
    [i \in DOMAIN col |-> IF i = 1 THEN NaN ELSE col[i] - col[1]]

\* DataFrame.diff(): the first row is NaN, every other row the difference
\* from the row before it
diff(col) == [i \in DOMAIN col |-> IF i = 1 THEN NaN ELSE col[i] - col[i - 1]]

fillna(col, v) == [i \in DOMAIN col |-> IF col[i] = NaN THEN v ELSE col[i]]

\* ProjectProductivityPerCommit.compute
ProjectProductivityPerCommit_compute(input_data) ==
    LET d == fillna(diff([i \in DOMAIN input_data |-> input_data[i].code]), 0)
    IN  [i \in DOMAIN input_data |->
            [index |-> input_data[i].index,
             delta_code |-> d[i],
             commit_hash_id |-> input_data[i].commit_hash_id]]

RECURSIVE SumDeltaCode(_)
SumDeltaCode(rows) ==
    IF rows = << >> THEN 0 ELSE rows[1].delta_code + SumDeltaCode(Tail(rows))

\* a per-day frame that takes the delta of the last commit of each day
ProjectProductivityPerDay_compute_last(input_data) ==
    IF input_data = << >>
    THEN [raised |-> "TypeError", computed_data |-> << >>]
    ELSE LET days == {input_data[i].committed_datetime : i \in DOMAIN input_data}
             lo   == CHOOSE x \in days : \A y \in days : x <= y
             hi   == CHOOSE x \in days : \A y \in days : x >= y
             bins == date_range(lo, hi)
             on(k) == SelectSeq(input_data,
                        LAMBDA r : r.committed_datetime = bins[k])
             summed == [k \in DOMAIN bins |->
                          [index |-> bins[k],
                           delta_code |-> IF on(k) = << >> THEN 0
                                          ELSE on(k)[Len(on(k))].delta_code,
                           date  |-> bins[k]]]
         IN  IF \A i \in DOMAIN input_data : "commit_hash_id" \in DOMAIN input_data[i]
             THEN [raised |-> "none", computed_data |-> reset_index(summed)]
             ELSE [raised |-> "KeyError", computed_data |-> summed]

\* ProjectProductivityPerDay.compute: groupby(Grouper(key="committed_datetime",
\* freq="D")) raises TypeError on a frame without rows, whose column is not
\* datetime-like.  Otherwise computed_data is assigned the sum of every bin,
\* one bin per day from the earliest to the latest commit day and labelled
\* with the day, and gets the column date; drop(columns="commit_hash_id")
\* then raises KeyError on a frame that has no such column, as the frame of
\* preprocess, and leaves computed_data as it stands; on a frame that has the
\* column the rows are numbered anew
ProjectProductivityPerDay_compute(input_data) ==
    IF input_data = << >>
    THEN [raised |-> "TypeError", computed_data |-> << >>]
    ELSE LET days == {input_data[i].committed_datetime : i \in DOMAIN input_data}
             lo   == CHOOSE x \in days : \A y \in days : x <= y
             hi   == CHOOSE x \in days : \A y \in days : x >= y
             bins == date_range(lo, hi)
             summed == [k \in DOMAIN bins |->
                          [index |-> bins[k],
                           delta_code |-> SumDeltaCode(SelectSeq(input_data,
                                LAMBDA r : r.committed_datetime = bins[k])),
                           date  |-> bins[k]]]
         IN  IF \A i \in DOMAIN input_data : "commit_hash_id" \in DOMAIN input_data[i]
             THEN [raised |-> "none", computed_data |-> reset_index(summed)]
             ELSE [raised |-> "KeyError", computed_data |-> summed]

(***************************************************************************)
(* Handlers of the size and productivity stages.                           *)
(***************************************************************************)
\* handle_size: the commit_hashes table is read, then FileSizePerCommit is
\* constructed with the keyword commit_hashes=, which __init__(vcs, scc, db)
\* does not take: TypeError before any compute and any write
handle_size ==
    /\ pc = "size"
    /\ pc' = "raised"
    /\ UNCHANGED <<now, repo, tags, data, commit_hashes, authors, committers,
                   releases, commit_logs, scc_runs, file_size_per_commit,
                   project_size_per_commit, project_size_per_day,
                   project_productivity_per_commit,
                   project_productivity_per_day, issues,
                   issue_spoilage_per_day>>
    /\ UNCHANGED busVars
    /\ UNCHANGED checkoutVars
    /\ UNCHANGED writeVars
    /\ UNCHANGED fetchVars
    /\ UNCHANGED metricVars

\* handle_project_productivity: the project_size_per_commit table is read,
\* then ProjectProductivityPerCommit is constructed with the keyword
\* project_size_per_commit=, which __init__(db) does not take: TypeError
\* before any compute and any write
handle_project_productivity ==
    /\ pc = "project_productivity"
    /\ pc' = "raised"
    /\ UNCHANGED <<now, repo, tags, data, commit_hashes, authors, committers,
                   releases, commit_logs, scc_runs, file_size_per_commit,
                   project_size_per_commit, project_size_per_day,
                   project_productivity_per_commit,
                   project_productivity_per_day, issues,
                   issue_spoilage_per_day>>
    /\ UNCHANGED busVars
    /\ UNCHANGED checkoutVars
    /\ UNCHANGED writeVars
    /\ UNCHANGED fetchVars
    /\ UNCHANGED metricVars

(***************************************************************************)
(* The metric classes of the size and productivity stages, one method call *)
(* at a time: an object is constructed on the store, then preprocess,     *)
(* compute and write are called on it.                                     *)
(***************************************************************************)
\* the classes in the order their tables depend on each other
SizeMetrics == << "ProjectSizePerCommit", "ProjectSizePerDay",
                  "ProjectProductivityPerCommit", "ProjectProductivityPerDay" >>

\* the place of a class in that order, 0 for any other class
StageOf(class) ==
    IF \E k \in DOMAIN SizeMetrics : SizeMetrics[k] = class
    THEN CHOOSE k \in DOMAIN SizeMetrics : SizeMetrics[k] = class
    ELSE 0

\* the object of the next class is constructed once the object before it has
\* written its table
Metric_init ==
    /\ pc = "done"
    /\ StageOf(metric.class) \in 1..(Len(SizeMetrics) - 1)
    /\ metric' = Metric(SizeMetrics[StageOf(metric.class) + 1])
    /\ pc' = "preprocess"
    /\ UNCHANGED <<now, repo, tags, data, commit_hashes, authors, committers,
                   releases, commit_logs, scc_runs, file_size_per_commit,
                   project_size_per_commit, project_size_per_day,
                   project_productivity_per_commit,
                   project_productivity_per_day, issues,
                   issue_spoilage_per_day>>
    /\ UNCHANGED busVars
    /\ UNCHANGED checkoutVars
    /\ UNCHANGED writeVars
    /\ UNCHANGED fetchVars

\* ProjectSizePerCommit.preprocess: input_data is the file_size_per_commit table
call_ProjectSizePerCommit_preprocess ==
    /\ pc = "preprocess"
    /\ metric.class = "ProjectSizePerCommit"
    /\ metric' = [metric EXCEPT !.input_data = read_table(file_size_per_commit)]
    /\ pc' = "compute"
    /\ UNCHANGED <<now, repo, tags, data, commit_hashes, authors, committers,
                   releases, commit_logs, scc_runs, file_size_per_commit,
                   project_size_per_commit, project_size_per_day,
                   project_productivity_per_commit,
                   project_productivity_per_day, issues,
                   issue_spoilage_per_day>>
    /\ UNCHANGED busVars
    /\ UNCHANGED checkoutVars
    /\ UNCHANGED writeVars
    /\ UNCHANGED fetchVars

\* ProjectSizePerCommit.compute on the object's input_data
call_ProjectSizePerCommit_compute ==
    /\ pc = "compute"
    /\ metric.class = "ProjectSizePerCommit"
    /\ metric' = [metric EXCEPT !.computed_data = ProjectSizePerCommit_compute(metric.input_data)]
    /\ pc' = "write"
    /\ UNCHANGED <<now, repo, tags, data, commit_hashes, authors, committers,
                   releases, commit_logs, scc_runs, file_size_per_commit,
                   project_size_per_commit, project_size_per_day,
                   project_productivity_per_commit,
                   project_productivity_per_day, issues,
                   issue_spoilage_per_day>>
    /\ UNCHANGED busVars
    /\ UNCHANGED checkoutVars
    /\ UNCHANGED writeVars
    /\ UNCHANGED fetchVars

\* ProjectSizePerCommit.write: db.write_df of computed_data to project_size_per_commit
call_ProjectSizePerCommit_write ==
    /\ pc = "write"
    /\ metric.class = "ProjectSizePerCommit"
    /\ project_size_per_commit' = write_df(project_size_per_commit, metric.computed_data)
    /\ pc' = "done"
    /\ UNCHANGED <<now, repo, tags, data, commit_hashes, authors, committers,
                   releases, commit_logs, scc_runs, file_size_per_commit,
                   project_size_per_day, project_productivity_per_commit,
                   project_productivity_per_day, issues,
                   issue_spoilage_per_day>>
    /\ UNCHANGED busVars
    /\ UNCHANGED checkoutVars
    /\ UNCHANGED writeVars
    /\ UNCHANGED fetchVars
    /\ UNCHANGED metricVars

\* ProjectSizePerDay.preprocess: input_data is the joined, deduplicated frame
call_ProjectSizePerDay_preprocess ==
    /\ pc = "preprocess"
    /\ metric.class = "ProjectSizePerDay"
    /\ metric' = [metric EXCEPT !.input_data = 
           ProjectSizePerDay_preprocess(project_size_per_commit, commit_logs)]
    /\ pc' = "compute"
    /\ UNCHANGED <<now, repo, tags, data, commit_hashes, authors, committers,
                   releases, commit_logs, scc_runs, file_size_per_commit,
                   project_size_per_commit, project_size_per_day,
                   project_productivity_per_commit,
                   project_productivity_per_day, issues,
                   issue_spoilage_per_day>>
    /\ UNCHANGED busVars
    /\ UNCHANGED checkoutVars
    /\ UNCHANGED writeVars
    /\ UNCHANGED fetchVars

\* ProjectSizePerDay.compute on the object's input_data, at Timestamp.utcnow()
call_ProjectSizePerDay_compute ==
    /\ pc = "compute"
    /\ metric.class = "ProjectSizePerDay"
    /\ metric' = [metric EXCEPT !.computed_data = 
           ProjectSizePerDay_compute(metric.input_data, now)]
    /\ pc' = "write"
    /\ UNCHANGED <<now, repo, tags, data, commit_hashes, authors, committers,
                   releases, commit_logs, scc_runs, file_size_per_commit,
                   project_size_per_commit, project_size_per_day,
                   project_productivity_per_commit,
                   project_productivity_per_day, issues,
                   issue_spoilage_per_day>>
    /\ UNCHANGED busVars
    /\ UNCHANGED checkoutVars
    /\ UNCHANGED writeVars
    /\ UNCHANGED fetchVars

\* ProjectSizePerDay.write: db.write_df of computed_data to project_size_per_day
call_ProjectSizePerDay_write ==
    /\ pc = "write"
    /\ metric.class = "ProjectSizePerDay"
    /\ project_size_per_day' = write_df(project_size_per_day, metric.computed_data)
    /\ pc' = "done"
    /\ UNCHANGED <<now, repo, tags, data, commit_hashes, authors, committers,
                   releases, commit_logs, scc_runs, file_size_per_commit,
                   project_size_per_commit, project_productivity_per_commit,
                   project_productivity_per_day, issues,
                   issue_spoilage_per_day>>
    /\ UNCHANGED busVars
    /\ UNCHANGED checkoutVars
    /\ UNCHANGED writeVars
    /\ UNCHANGED fetchVars
    /\ UNCHANGED metricVars

\* ProjectProductivityPerCommit.preprocess: input_data is the
\* project_size_per_commit table
call_ProjectProductivityPerCommit_preprocess ==
    /\ pc = "preprocess"
    /\ metric.class = "ProjectProductivityPerCommit"
    /\ metric' = [metric EXCEPT !.input_data = 
           read_table(project_size_per_commit)]
    /\ pc' = "compute"
    /\ UNCHANGED <<now, repo, tags, data, commit_hashes, authors, committers,
                   releases, commit_logs, scc_runs, file_size_per_commit,
                   project_size_per_commit, project_size_per_day,
                   project_productivity_per_commit,
                   project_productivity_per_day, issues,
                   issue_spoilage_per_day>>
    /\ UNCHANGED busVars
    /\ UNCHANGED checkoutVars
    /\ UNCHANGED writeVars
    /\ UNCHANGED fetchVars

\* ProjectProductivityPerCommit.compute on the object's input_data
call_ProjectProductivityPerCommit_compute ==
    /\ pc = "compute"
    /\ metric.class = "ProjectProductivityPerCommit"
    /\ metric' = [metric EXCEPT !.computed_data = 
           ProjectProductivityPerCommit_compute(metric.input_data)]
    /\ pc' = "write"
    /\ UNCHANGED <<now, repo, tags, data, commit_hashes, authors, committers,
                   releases, commit_logs, scc_runs, file_size_per_commit,
                   project_size_per_commit, project_size_per_day,
                   project_productivity_per_commit,
                   project_productivity_per_day, issues,
                   issue_spoilage_per_day>>
    /\ UNCHANGED busVars
    /\ UNCHANGED checkoutVars
    /\ UNCHANGED writeVars
    /\ UNCHANGED fetchVars

\* ProjectProductivityPerCommit.write: db.write_df of computed_data to project_productivity_per_commit
call_ProjectProductivityPerCommit_write ==
    /\ pc = "write"
    /\ metric.class = "ProjectProductivityPerCommit"
    /\ project_productivity_per_commit' = write_df(project_productivity_per_commit, metric.computed_data)
    /\ pc' = "done"
    /\ UNCHANGED <<now, repo, tags, data, commit_hashes, authors, committers,
                   releases, commit_logs, scc_runs, file_size_per_commit,
                   project_size_per_commit, project_size_per_day,
                   project_productivity_per_day, issues,
                   issue_spoilage_per_day>>
    /\ UNCHANGED busVars
    /\ UNCHANGED checkoutVars
    /\ UNCHANGED writeVars
    /\ UNCHANGED fetchVars
    /\ UNCHANGED metricVars

\* ProjectProductivityPerDay.preprocess: input_data is the per-commit
\* productivity joined with the commit logs, committed_datetime floored
call_ProjectProductivityPerDay_preprocess ==
    /\ pc = "preprocess"
    /\ metric.class = "ProjectProductivityPerDay"
    /\ metric' = [metric EXCEPT !.input_data =
           JoinCommitLogs(project_productivity_per_commit, commit_logs)]
    /\ pc' = "compute"
    /\ UNCHANGED <<now, repo, tags, data, commit_hashes, authors, committers,
                   releases, commit_logs, scc_runs, file_size_per_commit,
                   project_size_per_commit, project_size_per_day,
                   project_productivity_per_commit,
                   project_productivity_per_day, issues,
                   issue_spoilage_per_day>>
    /\ UNCHANGED busVars
    /\ UNCHANGED checkoutVars
    /\ UNCHANGED writeVars
    /\ UNCHANGED fetchVars

\* ProjectProductivityPerDay.compute on the object's input_data: computed_data
\* is what the method had assigned when it returned or raised.  On the frame
\* of preprocess it raises, so ProjectProductivityPerDay.write is never
\* reached with a computed frame
call_ProjectProductivityPerDay_compute ==
    /\ pc = "compute"
    /\ metric.class = "ProjectProductivityPerDay"
    /\ \E result \in {ProjectProductivityPerDay_compute(metric.input_data)} :
           /\ metric' = [metric EXCEPT !.computed_data = result.computed_data]
           /\ pc' = IF result.raised = "none" THEN "write" ELSE "raised"
    /\ UNCHANGED <<now, repo, tags, data, commit_hashes, authors, committers,
                   releases, commit_logs, scc_runs, file_size_per_commit,
                   project_size_per_commit, project_size_per_day,
                   project_productivity_per_commit,
                   project_productivity_per_day, issues,
                   issue_spoilage_per_day>>
    /\ UNCHANGED busVars
    /\ UNCHANGED checkoutVars
    /\ UNCHANGED writeVars
    /\ UNCHANGED fetchVars

\* the tables of a store in which the VCS stage has ingested a history of
\* Len(days) commits and the per-file step has measured every commit: commit
\* i has hash HashOf(i), was committed on day days[i] and its tree measures
\* sizes[i] lines of code; no later stage has written anything
HistoryStore(days, sizes) ==
    /\ commit_hashes = [i \in DOMAIN days |->
            [id |-> i - 1, commit_hash |-> HashOf(i)]]
    /\ commit_logs = [i \in DOMAIN days |->
            [id |-> i - 1, commit_hash_id |-> i - 1,
             committed_datetime |-> DayStart(days[i]) + CommitTimeOfDay(i)]]
    /\ scc_runs = [h \in {HashOf(i) : i \in DOMAIN days} |->
            << [code |-> sizes[h - 100]] >>]
    /\ \E fspc \in {FileSizePerCommit_compute(
                        [i \in DOMAIN days |->
                            [index |-> i - 1, commit_hash |-> HashOf(i)]],
                        [h \in {HashOf(i) : i \in DOMAIN days} |->
                            << [code |-> sizes[h - 100]] >>])} :
          file_size_per_commit = write_df(<< >>, fspc)
    /\ project_size_per_commit = << >>
    /\ project_size_per_day = << >>
    /\ project_productivity_per_commit = << >>
    /\ project_productivity_per_day = << >>
    /\ issues = << >>
    /\ issue_spoilage_per_day = << >>
    /\ repo = << >>
    /\ tags = << >>
    /\ data = NoData
    /\ authors = << >>
    /\ committers = << >>
    /\ releases = << >>
    /\ bus_factor = << >>
    /\ NoCheckout
    /\ write_log = << >>
    /\ NoFetch

\* what is run on the store: one of the two handlers, or the metric classes
\* from ProjectSizePerCommit on
SizeEntry(at) ==
    /\ pc = at
    /\ metric = IF at = "preprocess" THEN Metric(SizeMetrics[1]) ELSE NoMetric

SizeEntries == {"size", "project_productivity", "preprocess"}

\* any history of 1..MaxCommits commits, any commit days in any order, run on
\* a day that is not before any commit day
InitSize ==
    \E n \in 1..MaxCommits :
    \E days \in [1..n -> 1..MaxDay], sizes \in [1..n -> SizeValues] :
    \E today \in 1..MaxDay :
    \E at \in SizeEntries :
        /\ \A i \in 1..n : days[i] <= today
        /\ HistoryStore(days, sizes)
        /\ now = DayStart(today) + NowTimeOfDay
        /\ SizeEntry(at)

\* the scenario family: three commits on day 1, none on days 2 and 3, one
\* commit on day 4, run on day 4 or later
ScenarioDays == << 1, 1, 1, 4 >>
ScenarioSizes == {10, 15, 20, 25}
ScenarioLastDay == 5

InitScenario ==
    \E sizes \in [DOMAIN ScenarioDays -> ScenarioSizes] :
    \E today \in 4..ScenarioLastDay :
    \E at \in SizeEntries :
        /\ HistoryStore(ScenarioDays, sizes)
        /\ now = DayStart(today) + NowTimeOfDay
        /\ SizeEntry(at)

NextSize ==
    \/ handle_size
    \/ handle_project_productivity
    \/ Metric_init
    \/ call_ProjectSizePerCommit_preprocess
    \/ call_ProjectSizePerCommit_compute
    \/ call_ProjectSizePerCommit_write
    \/ call_ProjectSizePerDay_preprocess
    \/ call_ProjectSizePerDay_compute
    \/ call_ProjectSizePerDay_write
    \/ call_ProjectProductivityPerCommit_preprocess
    \/ call_ProjectProductivityPerCommit_compute
    \/ call_ProjectProductivityPerCommit_write
    \/ call_ProjectProductivityPerDay_preprocess
    \/ call_ProjectProductivityPerDay_compute

SpecSize == InitSize /\ [][NextSize]_vars

SpecScenario == InitScenario /\ [][NextSize]_vars

(***************************************************************************)
(* Issue Spoilage Engine.                                                  *)
(***************************************************************************)
\* IntervalIndex.from_arrays(left=date_range, right=date_range + 23:59:59,
\* closed="both")[0:-1]: one closed interval per day, the last one cut off
daily_intervals(oldest_date, current_date) ==
    LET range == date_range(oldest_date, current_date)
        all   == [k \in DOMAIN range |->
                    [left |-> range[k], right |-> range[k] + (SecondsPerDay - 1)]]
    IN  SubSeq(all, 1, Len(all) - 1)

\* the issues with created_at and closed_at floored to the day, an open
\* issue closed at the current date, and the closed interval between the two
issue_intervals(issue_rows, current_date) ==
    [i \in DOMAIN issue_rows |->
        LET created == to_utc_date(issue_rows[i].created_at)
            closed  == to_utc_date(issue_rows[i].closed_at)
        IN  [left |-> created,
             right |-> IF closed = NaN THEN current_date ELSE closed]]

\* a compute that counts the issue intervals that overlap the daily interval
IssueSpoilagePerDay_compute_overlap(input_data, daily) ==
    [k \in DOMAIN daily |->
        [index |-> k - 1,
         start |-> daily[k].left,
         end   |-> daily[k].right,
         open_issues |-> Cardinality(
            {i \in DOMAIN input_data :
                /\ input_data[i].left <= daily[k].right
                /\ input_data[i].right >= daily[k].left})]]

\* IssueSpoilagePerDay.compute: for every daily interval, the number of issue
\* intervals that fully cover it
IssueSpoilagePerDay_compute(input_data, daily) ==
    [k \in DOMAIN daily |->
        [index |-> k - 1,
         start |-> daily[k].left,
         end   |-> daily[k].right,
         open_issues |-> Cardinality(
            {i \in DOMAIN input_data :
                /\ input_data[i].left <= daily[k].left
                /\ input_data[i].right >= daily[k].right})]]

\* SELECT MIN(date) FROM project_size_per_day
MinDate(table) ==
    CHOOSE d \in {table[i].date : i \in DOMAIN table} :
        \A i \in DOMAIN table : d <= table[i].date

\* handle_issue_spoilage: the oldest date of project_size_per_day and the
\* issues table are read and the intervals built; with no issue the
\* assignment of the interval column raises ValueError, otherwise
\* IssueSpoilagePerDay is constructed with the keywords daily_intervals= and
\* input_data=, which __init__(db) does not take: TypeError.  Either way
\* before any compute and any write
handle_issue_spoilage ==
    /\ pc = "issue_spoilage"
    /\ pc' = "raised"
    /\ UNCHANGED <<now, repo, tags, data, commit_hashes, authors, committers,
                   releases, commit_logs, scc_runs, file_size_per_commit,
                   project_size_per_commit, project_size_per_day,
                   project_productivity_per_commit,
                   project_productivity_per_day, issues,
                   issue_spoilage_per_day>>
    /\ UNCHANGED busVars
    /\ UNCHANGED checkoutVars
    /\ UNCHANGED writeVars
    /\ UNCHANGED fetchVars
    /\ UNCHANGED metricVars

\* IssueSpoilagePerDay.__init__: the fields of Metric and one interval [0, 1]
IssueSpoilagePerDay_init ==
    [class |-> "IssueSpoilagePerDay", input_data |-> << >>,
     computed_data |-> << >>,
     daily_intervals |-> << [left |-> 0, right |-> 1] >>]

\* IssueSpoilagePerDay.preprocess: the query names its column date and the
\* method reads committed_datetime: KeyError before any field is assigned
call_IssueSpoilagePerDay_preprocess ==
    /\ pc = "preprocess"
    /\ metric.class = "IssueSpoilagePerDay"
    /\ pc' = "raised"
    /\ UNCHANGED <<now, repo, tags, data, commit_hashes, authors, committers,
                   releases, commit_logs, scc_runs, file_size_per_commit,
                   project_size_per_commit, project_size_per_day,
                   project_productivity_per_commit,
                   project_productivity_per_day, issues,
                   issue_spoilage_per_day>>
    /\ UNCHANGED busVars
    /\ UNCHANGED checkoutVars
    /\ UNCHANGED writeVars
    /\ UNCHANGED fetchVars
    /\ UNCHANGED metricVars

\* IssueSpoilagePerDay.compute on the object's input_data and daily_intervals
call_IssueSpoilagePerDay_compute ==
    /\ pc = "compute"
    /\ metric.class = "IssueSpoilagePerDay"
    /\ metric' = [metric EXCEPT !.computed_data =
           IssueSpoilagePerDay_compute(metric.input_data, metric.daily_intervals)]
    /\ pc' = "write"
    /\ UNCHANGED <<now, repo, tags, data, commit_hashes, authors, committers,
                   releases, commit_logs, scc_runs, file_size_per_commit,
                   project_size_per_commit, project_size_per_day,
                   project_productivity_per_commit,
                   project_productivity_per_day, issues,
                   issue_spoilage_per_day>>
    /\ UNCHANGED busVars
    /\ UNCHANGED checkoutVars
    /\ UNCHANGED writeVars
    /\ UNCHANGED fetchVars

\* IssueSpoilagePerDay.write: db.write_df of computed_data to
\* issue_spoilage_per_day
call_IssueSpoilagePerDay_write ==
    /\ pc = "write"
    /\ metric.class = "IssueSpoilagePerDay"
    /\ issue_spoilage_per_day' =
           write_df(issue_spoilage_per_day, metric.computed_data)
    /\ pc' = "done"
    /\ UNCHANGED <<now, repo, tags, data, commit_hashes, authors, committers,
                   releases, commit_logs, scc_runs, file_size_per_commit,
                   project_size_per_commit, project_size_per_day,
                   project_productivity_per_commit,
                   project_productivity_per_day, issues>>
    /\ UNCHANGED busVars
    /\ UNCHANGED checkoutVars
    /\ UNCHANGED writeVars
    /\ UNCHANGED fetchVars
    /\ UNCHANGED metricVars

IssueCreatedTimeOfDay == 8 * 3600
IssueClosedTimeOfDay == 17 * 3600

\* what is run on the store: the handler, preprocess on a new object, or
\* compute on an object that holds the daily_intervals and the input_data
\* handle_issue_spoilage builds before it constructs its object
IssueEntries == {"issue_spoilage", "preprocess", "compute"}

\* a store whose history starts on day first, with up to MaxIssues issues,
\* stored in the order of their creation as the tracker serves them, each
\* created on a day up to today and either still open or closed on a day
\* from its created day up to today; the spoilage stage has not run yet
InitIssues ==
    \E first \in 1..MaxIssueDay, today \in 1..MaxIssueDay :
    \E n \in 0..MaxIssues :
    \E created \in [1..n -> 1..MaxIssueDay],
       closed \in [1..n -> {NaN} \cup 1..MaxIssueDay] :
    \E at \in IssueEntries :
        /\ first <= today
        /\ \A i \in 1..(n - 1) : created[i] <= created[i + 1]
        /\ \A i \in 1..n :
              /\ created[i] <= today
              /\ closed[i] # NaN => created[i] <= closed[i] /\ closed[i] <= today
        /\ at = "compute" => n >= 1
        /\ pc = at
        /\ now = DayStart(today) + NowTimeOfDay
        /\ project_size_per_day =
              write_df(<< >>, ProjectSizePerDay_compute(
                  << [index |-> 0, committed_datetime |-> DayStart(first),
                      code |-> 10] >>, now))
        /\ issues = [i \in 1..n |->
              [id |-> i - 1, issue_id_key |-> i - 1,
               created_at |-> DayStart(created[i]) + IssueCreatedTimeOfDay,
               closed_at |-> IF closed[i] = NaN THEN NaN
                             ELSE DayStart(closed[i]) + IssueClosedTimeOfDay]]
        /\ metric =
              IF at = "issue_spoilage" THEN NoMetric
              ELSE IF at = "preprocess" THEN IssueSpoilagePerDay_init
              ELSE [IssueSpoilagePerDay_init EXCEPT
                      !.daily_intervals =
                          daily_intervals(
                              to_utc_date(MinDate(project_size_per_day)),
                              to_utc_date(now)),
                      !.input_data =
                          issue_intervals(read_table(issues), to_utc_date(now))]
        /\ issue_spoilage_per_day = << >>
        /\ repo = << >>
        /\ tags = << >>
        /\ data = NoData
        /\ authors = << >>
        /\ committers = << >>
        /\ releases = << >>
        /\ commit_hashes = << >>
        /\ commit_logs = << >>
        /\ scc_runs = << >>
        /\ file_size_per_commit = << >>
        /\ project_size_per_commit = << >>
        /\ project_productivity_per_commit = << >>
        /\ project_productivity_per_day = << >>
        /\ bus_factor = << >>
        /\ NoCheckout
        /\ write_log = << >>
        /\ NoFetch

NextIssues ==
    \/ handle_issue_spoilage
    \/ call_IssueSpoilagePerDay_preprocess
    \/ call_IssueSpoilagePerDay_compute
    \/ call_IssueSpoilagePerDay_write

SpecIssues == InitIssues /\ [][NextIssues]_vars

(***************************************************************************)
(* Bus Factor Estimator.                                                   *)
(***************************************************************************)
\* pd.concat(objs=frames): the rows of the frames one after the other
RECURSIVE concat(_)
concat(frames) ==
    IF frames = << >> THEN << >> ELSE frames[1] \o concat(Tail(frames))

\* project_productivity_per_commit.merge(commit_datetimes[["commit_hash_id",
\* "committed_datetime", "committer_id"]], on="commit_hash_id", how="left")
\* and drop(columns="commit_hash_id"): every productivity row once for every
\* commit log row of its commit, once with committed_datetime NaT and
\* committer_id NaN when there is none, in the order of the productivity
\* rows and labelled 0, 1, 2, ...
merge_commit_logs(p, c) ==
    reset_index(concat([n \in DOMAIN p |->
        LET m == SelectSeq(c, LAMBDA r : r.commit_hash_id = p[n].commit_hash_id)
        IN  IF m = << >>
            THEN << [index |-> 0,
                     delta_code |-> p[n].delta_code,
                     committed_datetime |-> NaN,
                     committer_id |-> NaN] >>
            ELSE [k \in DOMAIN m |->
                    [index |-> 0,
                     delta_code |-> p[n].delta_code,
                     committed_datetime |-> m[k].committed_datetime,
                     committer_id |-> m[k].committer_id]]]))

\* the value itself, no sign removed
abs_keep_sign(x) == x

\* DataFrame.abs() on one value
abs(x) == IF x < 0 THEN -x ELSE x

\* the absolute value of the sum of the signed deltas
AbsOfSumDeltaCode(rows) == abs(SumDeltaCode(rows))

RECURSIVE SumAbsDeltaCode(_)
SumAbsDeltaCode(rows) ==
    IF rows = << >> THEN 0
    ELSE abs(rows[1].delta_code) + SumAbsDeltaCode(Tail(rows))

\* the row written for a day without commits
NoContribution == -1

\* the rows of one day, none for a day without commits
committer_contributions_no_sentinel(date_group, idx) ==
    LET ids == SortedKeys({abs(date_group[i].committer_id) : i \in DOMAIN date_group})
    IN  [k \in DOMAIN ids |->
            [delta_code |-> SumAbsDeltaCode(SelectSeq(date_group,
                    LAMBDA r : abs(r.committer_id) = ids[k])),
             committer_id |-> ids[k],
             date |-> idx]]

\* the rows of one day: the absolute deltas summed per committer, committers
\* in ascending order; a day without commits gets the one row of -1
committer_contributions(date_group, idx) ==
    LET ids == SortedKeys({abs(date_group[i].committer_id) : i \in DOMAIN date_group})
    IN  IF ids = << >>
        THEN << [delta_code |-> NoContribution,
                 committer_id |-> NoContribution, date |-> idx] >>
        ELSE [k \in DOMAIN ids |->
                [delta_code |-> SumAbsDeltaCode(SelectSeq(date_group,
                        LAMBDA r : abs(r.committer_id) = ids[k])),
                 committer_id |-> ids[k],
                 date |-> idx]]

\* the rows that carry a committed_datetime: groupby leaves out the rows
\* whose key is NaT
dated(input_data) ==
    SelectSeq(input_data, LAMBDA r : r.committed_datetime # NaN)

\* BusFactorPerDay.compute: one bin per day from the earliest to the latest
\* commit day, the rows of all bins concatenated and numbered anew
BusFactorPerDay_compute(input_data) ==
    IF dated(input_data) = << >> THEN << >>
    ELSE LET rows == dated(input_data)
             days == {to_utc_date(rows[i].committed_datetime) : i \in DOMAIN rows}
             lo   == CHOOSE x \in days : \A y \in days : x <= y
             hi   == CHOOSE x \in days : \A y \in days : x >= y
             bins == date_range(lo, hi)
             all  == concat([k \in DOMAIN bins |->
                        committer_contributions(
                            SelectSeq(rows, LAMBDA r :
                                to_utc_date(r.committed_datetime) = bins[k]),
                            bins[k])])
         IN  [k \in DOMAIN all |->
                [index |-> k - 1,
                 delta_code |-> all[k].delta_code,
                 committer_id |-> all[k].committer_id,
                 date |-> all[k].date]]

\* handle_bus_factor: the per-commit productivity is read and merged with the
\* commit logs, then BusFactorPerDay is constructed with the keyword
\* input_data=, which __init__(db) does not take: TypeError before any
\* compute and any write
handle_bus_factor ==
    /\ pc = "bus_factor"
    /\ pc' = "raised"
    /\ UNCHANGED <<now, repo, tags, data, commit_hashes, authors, committers,
                   releases, commit_logs, scc_runs, file_size_per_commit,
                   project_size_per_commit, project_size_per_day,
                   project_productivity_per_commit,
                   project_productivity_per_day, issues,
                   issue_spoilage_per_day>>
    /\ UNCHANGED busVars
    /\ UNCHANGED checkoutVars
    /\ UNCHANGED writeVars
    /\ UNCHANGED fetchVars
    /\ UNCHANGED metricVars

\* BusFactorPerDay.preprocess: the query has no comma after c.committer_id
\* and one before FROM: the store raises OperationalError before any field
\* is assigned
call_BusFactorPerDay_preprocess ==
    /\ pc = "preprocess"
    /\ metric.class = "BusFactorPerDay"
    /\ pc' = "raised"
    /\ UNCHANGED <<now, repo, tags, data, commit_hashes, authors, committers,
                   releases, commit_logs, scc_runs, file_size_per_commit,
                   project_size_per_commit, project_size_per_day,
                   project_productivity_per_commit,
                   project_productivity_per_day, issues,
                   issue_spoilage_per_day>>
    /\ UNCHANGED busVars
    /\ UNCHANGED checkoutVars
    /\ UNCHANGED writeVars
    /\ UNCHANGED fetchVars
    /\ UNCHANGED metricVars

\* BusFactorPerDay.compute on the object's input_data; when no row carries a
\* date there is no group and pd.concat raises on the empty list
call_BusFactorPerDay_compute ==
    /\ pc = "compute"
    /\ metric.class = "BusFactorPerDay"
    /\ IF dated(metric.input_data) = << >>
       THEN /\ pc' = "raised"
            /\ UNCHANGED metric
       ELSE /\ metric' = [metric EXCEPT !.computed_data =
                              BusFactorPerDay_compute(metric.input_data)]
            /\ pc' = "write"
    /\ UNCHANGED <<now, repo, tags, data, commit_hashes, authors, committers,
                   releases, commit_logs, scc_runs, file_size_per_commit,
                   project_size_per_commit, project_size_per_day,
                   project_productivity_per_commit,
                   project_productivity_per_day, issues,
                   issue_spoilage_per_day>>
    /\ UNCHANGED busVars
    /\ UNCHANGED checkoutVars
    /\ UNCHANGED writeVars
    /\ UNCHANGED fetchVars

\* BusFactorPerDay.write: db.write_df of computed_data to bus_factor
call_BusFactorPerDay_write ==
    /\ pc = "write"
    /\ metric.class = "BusFactorPerDay"
    /\ bus_factor' = write_df(bus_factor, metric.computed_data)
    /\ pc' = "done"
    /\ UNCHANGED <<now, repo, tags, data, commit_hashes, authors, committers,
                   releases, commit_logs, scc_runs, file_size_per_commit,
                   project_size_per_commit, project_size_per_day,
                   project_productivity_per_commit,
                   project_productivity_per_day, issues,
                   issue_spoilage_per_day>>
    /\ UNCHANGED checkoutVars
    /\ UNCHANGED writeVars
    /\ UNCHANGED fetchVars
    /\ UNCHANGED metricVars

\* the committers of the stored history
CommitterIds == {0, 1}

\* what is run on the store: the handler, preprocess on a new object, or
\* compute on an object that holds the input_data handle_bus_factor builds
\* before it constructs its object
BusEntries == {"bus_factor", "preprocess", "compute"}

\* a store that holds the per-commit size and productivity tables of a
\* history of 1..MaxCommits commits, each committed by any of the committers
\* on the day of the commit before it or on a later day; the commit log rows
\* of the first logged commits are stored, those of the later commits are
\* not; the bus factor stage has not run yet
InitBus ==
    \E n \in 1..MaxCommits :
    \E days \in [1..n -> 1..MaxDay], sizes \in [1..n -> SizeValues],
       who \in [1..n -> CommitterIds] :
    \E logged \in {0, n - 1, n} :
    \E at \in BusEntries :
        /\ \A i \in 1..(n - 1) : days[i] <= days[i + 1]
        /\ pc = at
        /\ now = DayStart(MaxDay) + NowTimeOfDay
        /\ commit_hashes = [i \in 1..n |->
                [id |-> i - 1, commit_hash |-> HashOf(i)]]
        /\ commit_logs = [i \in 1..logged |->
                [id |-> i - 1, commit_hash_id |-> i - 1,
                 committer_id |-> who[i],
                 committed_datetime |-> DayStart(days[i]) + CommitTimeOfDay(i)]]
        /\ scc_runs = [h \in {HashOf(i) : i \in 1..n} |->
                << [code |-> sizes[h - 100]] >>]
        /\ \E fspc \in {FileSizePerCommit_compute(
                            read_table(commit_hashes), scc_runs)} :
              file_size_per_commit = write_df(<< >>, fspc)
        /\ \E pspc \in {ProjectSizePerCommit_compute(
                            read_table(file_size_per_commit))} :
              project_size_per_commit = write_df(<< >>, pspc)
        /\ project_size_per_day = << >>
        /\ \E pppc \in {ProjectProductivityPerCommit_compute(
                            read_table(project_size_per_commit))} :
              project_productivity_per_commit = write_df(<< >>, pppc)
        /\ project_productivity_per_day = << >>
        /\ metric =
              IF at = "bus_factor" THEN NoMetric
              ELSE IF at = "preprocess" THEN Metric("BusFactorPerDay")
              ELSE [Metric("BusFactorPerDay") EXCEPT
                      !.input_data = merge_commit_logs(
                          read_table(project_productivity_per_commit),
                          commit_logs)]
        /\ bus_factor = << >>
        /\ issues = << >>
        /\ issue_spoilage_per_day = << >>
        /\ repo = << >>
        /\ tags = << >>
        /\ data = NoData
        /\ authors = << >>
        /\ committers = << >>
        /\ releases = << >>
        /\ NoCheckout
        /\ write_log = << >>
        /\ NoFetch

NextBus ==
    \/ handle_bus_factor
    \/ call_BusFactorPerDay_preprocess
    \/ call_BusFactorPerDay_compute
    \/ call_BusFactorPerDay_write

SpecBus == InitBus /\ [][NextBus]_vars

(***************************************************************************)
(* Issue Density Combiner.                                                 *)
(***************************************************************************)
\* handle_issue_density: the spoilage and size tables are read and their dates
\* converted, then IssueDensityPerDay is constructed: the class defines
\* neither preprocess nor write, so it is abstract and the construction
\* raises TypeError; were the two methods supplied, its __init__ passes
\* input_data= to Metric.__init__, which takes db, and raises TypeError too.
\* No object of the class comes into being, so IssueDensityPerDay.compute
\* is never run and nothing is written.
handle_issue_density ==
    /\ pc = "issue_density"
    /\ pc' = "raised"
    /\ UNCHANGED <<now, repo, tags, data, commit_hashes, authors, committers,
                   releases, commit_logs, scc_runs, file_size_per_commit,
                   project_size_per_commit, project_size_per_day,
                   project_productivity_per_commit,
                   project_productivity_per_day, issues,
                   issue_spoilage_per_day>>
    /\ UNCHANGED busVars
    /\ UNCHANGED checkoutVars
    /\ UNCHANGED writeVars
    /\ UNCHANGED fetchVars
    /\ UNCHANGED metricVars

\* a store in which the size stage ran on day sized over a history with
\* commits on one or two days and the spoilage stage ran today, on that day
\* or later, over at most one issue; the density stage has not run yet
InitDensity ==
    \E first \in 1..MaxDay, second \in 1..MaxDay, sized \in 1..MaxDay,
       today \in 1..MaxIssueDay :
    \E code_1 \in SizeValues, code_2 \in SizeValues :
    \E n \in 0..1 :
    \E created \in [1..n -> 1..MaxIssueDay],
       closed \in [1..n -> {NaN} \cup 1..MaxIssueDay] :
        /\ first <= second
        /\ second <= sized
        /\ sized <= today
        /\ first = second => code_1 = code_2
        /\ \A i \in 1..n :
              /\ created[i] <= today
              /\ closed[i] # NaN => created[i] <= closed[i] /\ closed[i] <= today
        /\ pc = "issue_density"
        /\ now = DayStart(today) + NowTimeOfDay
        /\ \E input_data \in {
                  IF first = second
                  THEN << [index |-> 0, committed_datetime |-> DayStart(first),
                           code |-> code_1] >>
                  ELSE << [index |-> 0, committed_datetime |-> DayStart(first),
                           code |-> code_1],
                          [index |-> 1, committed_datetime |-> DayStart(second),
                           code |-> code_2] >>} :
           \E pspd \in {ProjectSizePerDay_compute(
                            input_data, DayStart(sized) + NowTimeOfDay)} :
              project_size_per_day = write_df(<< >>, pspd)
        /\ issues = [i \in 1..n |->
              [id |-> i - 1, issue_id_key |-> i - 1,
               created_at |-> DayStart(created[i]) + IssueCreatedTimeOfDay,
               closed_at |-> IF closed[i] = NaN THEN NaN
                             ELSE DayStart(closed[i]) + IssueClosedTimeOfDay]]
        /\ \E input_data \in {issue_intervals(read_table(issues),
                                               to_utc_date(now))} :
           \E daily \in {daily_intervals(
                            to_utc_date(MinDate(project_size_per_day)),
                            to_utc_date(now))} :
           \E ispd \in {IssueSpoilagePerDay_compute(input_data, daily)} :
              issue_spoilage_per_day = write_df(<< >>, ispd)
        /\ metric = NoMetric
        /\ repo = << >>
        /\ tags = << >>
        /\ data = NoData
        /\ authors = << >>
        /\ committers = << >>
        /\ releases = << >>
        /\ commit_hashes = << >>
        /\ commit_logs = << >>
        /\ scc_runs = << >>
        /\ file_size_per_commit = << >>
        /\ project_size_per_commit = << >>
        /\ project_productivity_per_commit = << >>
        /\ project_productivity_per_day = << >>
        /\ bus_factor = << >>
        /\ NoCheckout
        /\ write_log = << >>
        /\ NoFetch

NextDensity == handle_issue_density

SpecDensity == InitDensity /\ [][NextDensity]_vars

(***************************************************************************)
(* The per-commit loop of the Size Aggregator, one collaborator call at a  *)
(* time.                                                                   *)
(***************************************************************************)
\* the commit_hashes row the loop is at
CurrentRow == read_table(commit_hashes)[rows_done + 1]

Call(name, revision) == [call |-> name, revision |-> revision]

\* vcs.checkout_revision(revision_hash=commit_hash): the working tree moves to
\* the revision of the row, or the call raises and the loop is left
checkout_revision ==
    /\ pc = "file_size_per_commit"
    /\ rows_done < Len(commit_hashes)
    /\ vcs_calls' = Append(vcs_calls,
                        Call("checkout_revision", CurrentRow.commit_hash))
    /\ \E raises \in BOOLEAN :
          IF raises
          THEN /\ pc' = "raised"
               /\ UNCHANGED checked_out
          ELSE /\ pc' = "scc"
               /\ checked_out' = CurrentRow.commit_hash
    /\ UNCHANGED <<branch_tip, rows_done, size_frames>>
    /\ UNCHANGED <<now, repo, tags, data, commit_hashes, authors, committers,
                   releases, commit_logs, scc_runs, file_size_per_commit,
                   project_size_per_commit, project_size_per_day,
                   project_productivity_per_commit,
                   project_productivity_per_day,
                   issues, issue_spoilage_per_day>>
    /\ UNCHANGED busVars
    /\ UNCHANGED writeVars
    /\ UNCHANGED fetchVars
    /\ UNCHANGED metricVars

\* the rows tagged with the label after the loop's row
tag_rows_next_label(scc_data, idx) ==
    [k \in DOMAIN scc_data |->
        [index |-> k - 1, commit_hash_id |-> idx + 1, code |-> scc_data[k].code]]

\* the rows scc measured, each tagged with the label of the loop's row
tag_rows(scc_data, idx) ==
    [k \in DOMAIN scc_data |->
        [index |-> k - 1, commit_hash_id |-> idx, code |-> scc_data[k].code]]

\* scc.run() on the working tree and the tagging of its rows, or the run
\* raises and the loop is left
scc_run ==
    /\ pc = "scc"
    /\ vcs_calls' = Append(vcs_calls, Call("scc.run", checked_out))
    /\ \E raises \in BOOLEAN :
          IF raises
          THEN /\ pc' = "raised"
               /\ UNCHANGED <<rows_done, size_frames>>
          ELSE /\ pc' = "file_size_per_commit"
               /\ size_frames' = Append(size_frames,
                      tag_rows(scc_runs[checked_out], CurrentRow.index))
               /\ rows_done' = rows_done + 1
    /\ UNCHANGED <<checked_out, branch_tip>>
    /\ UNCHANGED <<now, repo, tags, data, commit_hashes, authors, committers,
                   releases, commit_logs, scc_runs, file_size_per_commit,
                   project_size_per_commit, project_size_per_day,
                   project_productivity_per_commit,
                   project_productivity_per_day,
                   issues, issue_spoilage_per_day>>
    /\ UNCHANGED busVars
    /\ UNCHANGED writeVars
    /\ UNCHANGED fetchVars
    /\ UNCHANGED metricVars

\* vcs.checkout_most_recent_revision() after the loop: checks out
\* repo.head.commit, the commit the working tree is already at
checkout_most_recent_revision ==
    /\ pc = "file_size_per_commit"
    /\ rows_done = Len(commit_hashes)
    /\ vcs_calls' = Append(vcs_calls,
                        Call("checkout_most_recent_revision", checked_out))
    /\ checked_out' = checked_out
    /\ pc' = "concat"
    /\ UNCHANGED <<branch_tip, rows_done, size_frames>>
    /\ UNCHANGED <<now, repo, tags, data, commit_hashes, authors, committers,
                   releases, commit_logs, scc_runs, file_size_per_commit,
                   project_size_per_commit, project_size_per_day,
                   project_productivity_per_commit,
                   project_productivity_per_day,
                   issues, issue_spoilage_per_day>>
    /\ UNCHANGED busVars
    /\ UNCHANGED writeVars
    /\ UNCHANGED fetchVars
    /\ UNCHANGED metricVars

\* pd.concat(objs=data, ignore_index=True) and FileSizePerCommit.write
FileSizePerCommit_write ==
    /\ pc = "concat"
    /\ file_size_per_commit' =
          write_df(file_size_per_commit, reset_index(concat(size_frames)))
    /\ pc' = "done"
    /\ UNCHANGED checkoutVars
    /\ UNCHANGED <<now, repo, tags, data, commit_hashes, authors, committers,
                   releases, commit_logs, scc_runs,
                   project_size_per_commit, project_size_per_day,
                   project_productivity_per_commit,
                   project_productivity_per_day,
                   issues, issue_spoilage_per_day>>
    /\ UNCHANGED busVars
    /\ UNCHANGED writeVars
    /\ UNCHANGED fetchVars
    /\ UNCHANGED metricVars

\* what scc can measure on a tree: one file, or two files
FileTrees == { << [code |-> 10] >>, << [code |-> 15] >>,
               << [code |-> 10], [code |-> 20] >> }

\* a store holding the hashes of 1..MaxCommits revisions, a repository whose
\* branch is checked out at its most recent revision, which is the last
\* stored one or one committed after the VCS stage ran
InitCheckout ==
    \E n \in 1..MaxCommits :
    \E trees \in [1..n -> FileTrees], tip \in {n, n + 1} :
        /\ pc = "file_size_per_commit"
        /\ now = DayStart(MaxDay) + NowTimeOfDay
        /\ commit_hashes = [i \in 1..n |->
                [id |-> i - 1, commit_hash |-> HashOf(i)]]
        /\ scc_runs = [h \in {HashOf(i) : i \in 1..n} |-> trees[h - 100]]
        /\ branch_tip = HashOf(tip)
        /\ checked_out = HashOf(tip)
        /\ rows_done = 0
        /\ size_frames = << >>
        /\ vcs_calls = << >>
        /\ file_size_per_commit = << >>
        /\ project_size_per_commit = << >>
        /\ project_size_per_day = << >>
        /\ project_productivity_per_commit = << >>
        /\ project_productivity_per_day = << >>
        /\ bus_factor = << >>
        /\ issues = << >>
        /\ issue_spoilage_per_day = << >>
        /\ repo = << >>
        /\ tags = << >>
        /\ data = NoData
        /\ authors = << >>
        /\ committers = << >>
        /\ releases = << >>
        /\ commit_logs = << >>
        /\ write_log = << >>
        /\ NoFetch
        /\ metric = NoMetric

NextCheckout ==
    \/ checkout_revision
    \/ scc_run
    \/ checkout_most_recent_revision
    \/ FileSizePerCommit_write

SpecCheckout == InitCheckout /\ [][NextCheckout]_vars

(***************************************************************************)
(* Issue fetch stage: GitHubIssues.get_issues and handle_issues.  The      *)
(* get_total_issues request only sizes the progress bar.                   *)
(***************************************************************************)

\* the status code of a successful response
VALID_RESPONSE_CODE == 200

\* the status codes a request to the tracker gets
StatusCodes == {200, 502}

\* DataFrame(): no rows and no columns
EmptyDataFrame == [columns |-> {}, rows |-> << >>]

\* the k-th issue of the tracker: every second issue is closed
IssueNode(k) ==
    [id |-> "I_" \o ToString(k),
     createdAt |-> DayStart(1) + IssueCreatedTimeOfDay,
     closedAt |-> IF k % 2 = 0 THEN DayStart(2) + IssueClosedTimeOfDay ELSE NaN]

RECURSIVE SumTo(_, _)
SumTo(sizes, p) == IF p = 0 THEN 0 ELSE sizes[p] + SumTo(sizes, p - 1)

\* the pages the tracker serves for issues paged by the given page sizes; a
\* tracker without issues serves one page without edges
TrackerPages(sizes) ==
    IF sizes = << >> THEN << << >> >>
    ELSE [p \in DOMAIN sizes |->
            [i \in 1..sizes[p] |-> IssueNode(SumTo(sizes, p - 1) + i)]]

\* pageInfo.endCursor of page p
EndCursor(p) == "Y" \o ToString(p)

\* f'"{cursor}"'
Quote(cursor) == "\"" \o cursor \o "\""

\* the page the tracker serves after a cursor: the first one after null
PageAfter(cursor) ==
    IF cursor = "null" THEN 1
    ELSE 1 + CHOOSE p \in 1..MaxPages : Quote(EndCursor(p)) = cursor

\* GitHubIssues.get_issues raises KeyError on a successful response without
\* edges: the frame has no column created_at
get_issues_raises(pages, cursor, status) ==
    /\ status = VALID_RESPONSE_CODE
    /\ pages[PageAfter(cursor)] = << >>

\* GitHubIssues.get_issues: (issue_data, cursor, has_next_page)
get_issues(pages, cursor, status) ==
    IF status # VALID_RESPONSE_CODE THEN << EmptyDataFrame, "", FALSE >>
    ELSE LET p == PageAfter(cursor)
             nodes == pages[p]
         IN  << [columns |-> {"issue_id", "created_at", "closed_at"},
                 rows |-> [i \in DOMAIN nodes |->
                             [index |-> i - 1,
                              issue_id |-> nodes[i].id,
                              created_at |-> nodes[i].createdAt,
                              closed_at |-> nodes[i].closedAt]]],
                EndCursor(p),
                p < Len(pages) >>

\* pd.concat(objs=data, ignore_index=True) of the page frames: the union of
\* the columns, the rows relabelled 0, 1, 2, ...
RECURSIVE pd_concat(_)
pd_concat(frames) ==
    IF frames = << >> THEN EmptyDataFrame
    ELSE LET rest == pd_concat(Tail(frames))
         IN  [columns |-> frames[1].columns \cup rest.columns,
              rows |-> reset_index(frames[1].rows \o rest.rows)]

\* rename(columns={"issue_id": "issue_id_key"})
rename_issue_id(df) ==
    [i \in DOMAIN df |->
        [index |-> df[i].index,
         issue_id_key |-> df[i].issue_id,
         created_at |-> df[i].created_at,
         closed_at |-> df[i].closed_at]]

\* one turn of the while loop of handle_issues: request the page after the
\* cursor, keep its frame, its cursor and its has_next_page
handle_issues_page ==
    /\ pc = "issues"
    /\ has_next_page
    /\ \E status \in StatusCodes :
          /\ page_requests' = Append(page_requests,
                                     [cursor |-> after_cursor, status |-> status])
          /\ IF get_issues_raises(tracker, after_cursor, status)
             THEN /\ pc' = "raised"
                  /\ UNCHANGED <<issue_pages, after_cursor, has_next_page>>
             ELSE \E resp \in {get_issues(tracker, after_cursor, status)} :
                  /\ issue_pages' = Append(issue_pages, resp[1])
                  /\ after_cursor' = Quote(resp[2])
                  /\ has_next_page' = resp[3]
                  /\ pc' = pc
    /\ UNCHANGED <<now, repo, tags, data, commit_hashes, authors, committers,
                   releases, commit_logs, scc_runs, file_size_per_commit,
                   project_size_per_commit, project_size_per_day,
                   project_productivity_per_commit,
                   project_productivity_per_day,
                   issues, issue_spoilage_per_day, tracker, issue_ids>>
    /\ UNCHANGED busVars
    /\ UNCHANGED checkoutVars
    /\ UNCHANGED writeVars
    /\ UNCHANGED metricVars

\* handle_issues after the loop, before the writes: the page frames
\* concatenated
issue_data_of(pages) == pd_concat(pages)

\* the issue_ids frame split off the concatenated frame
issue_ids_of(pages) ==
    copy_dataframe_columns_to_dataframe(issue_data_of(pages).rows, {"issue_id"})

\* the issues frame: the issue id replaced by the index of its issue_ids row
\* and the column renamed
issues_of(pages) ==
    rename_issue_id(
        replace_dataframe_value_column_with_index_reference(
            issue_data_of(pages).rows, issue_ids_of(pages),
            "issue_id", "issue_id"))

\* handle_issues from the end of the loop through its first write:
\* concatenate the page frames and build the two frames, df[["issue_id"]]
\* raising KeyError on a frame without that column, then
\* db.write_df(issue_ids), which validates the frame and appends it in a
\* transaction of its own
handle_issues_write_issue_ids ==
    /\ pc = "issues"
    /\ ~has_next_page
    /\ IF "issue_id" \notin issue_data_of(issue_pages).columns
       THEN /\ pc' = "raised"
            /\ UNCHANGED issue_ids
       ELSE /\ issue_ids' = AfterWrite("issue_ids", issue_ids_of(issue_pages))
            /\ pc' = IF WriteResult("issue_ids", issue_ids_of(issue_pages)) = "raised"
                     THEN "raised" ELSE "write_issues"
    /\ UNCHANGED issues
    /\ UNCHANGED <<now, repo, tags, data, commit_hashes, authors, committers,
                   releases, commit_logs, scc_runs, file_size_per_commit,
                   project_size_per_commit, project_size_per_day,
                   project_productivity_per_commit,
                   project_productivity_per_day,
                   issue_spoilage_per_day, tracker, issue_pages, after_cursor,
                   has_next_page, page_requests>>
    /\ UNCHANGED busVars
    /\ UNCHANGED checkoutVars
    /\ UNCHANGED writeVars
    /\ UNCHANGED metricVars

\* handle_issues, its second write: db.write_df(issues), which validates the
\* frame and appends it; issue_ids is stored already, and stays stored when
\* this call raises
handle_issues_write_issues ==
    /\ pc = "write_issues"
    /\ issues' = AfterWrite("issues", issues_of(issue_pages))
    /\ pc' = IF WriteResult("issues", issues_of(issue_pages)) = "raised"
             THEN "raised" ELSE "done"
    /\ UNCHANGED issue_ids
    /\ UNCHANGED <<now, repo, tags, data, commit_hashes, authors, committers,
                   releases, commit_logs, scc_runs, file_size_per_commit,
                   project_size_per_commit, project_size_per_day,
                   project_productivity_per_commit,
                   project_productivity_per_day,
                   issue_spoilage_per_day, tracker, issue_pages, after_cursor,
                   has_next_page, page_requests>>
    /\ UNCHANGED busVars
    /\ UNCHANGED checkoutVars
    /\ UNCHANGED writeVars
    /\ UNCHANGED metricVars

\* a tracker of up to MaxPages pages of 1..MaxPageIssues issues, or without
\* issues, and an empty store
InitFetch ==
    \E sizes \in SeqsUpTo(1..MaxPageIssues, MaxPages) :
        /\ pc = "issues"
        /\ now = DayStart(MaxDay) + NowTimeOfDay
        /\ tracker = TrackerPages(sizes)
        /\ issue_pages = << >>
        /\ after_cursor = "null"
        /\ has_next_page = TRUE
        /\ page_requests = << >>
        /\ issue_ids = << >>
        /\ issues = << >>
        /\ issue_spoilage_per_day = << >>
        /\ repo = << >>
        /\ tags = << >>
        /\ data = NoData
        /\ commit_hashes = << >>
        /\ authors = << >>
        /\ committers = << >>
        /\ releases = << >>
        /\ commit_logs = << >>
        /\ scc_runs = << >>
        /\ file_size_per_commit = << >>
        /\ project_size_per_commit = << >>
        /\ project_size_per_day = << >>
        /\ project_productivity_per_commit = << >>
        /\ project_productivity_per_day = << >>
        /\ bus_factor = << >>
        /\ NoCheckout
        /\ write_log = << >>
        /\ metric = NoMetric

NextFetch ==
    \/ handle_issues_page
    \/ handle_issues_write_issue_ids
    \/ handle_issues_write_issues

SpecFetch == InitFetch /\ [][NextFetch]_vars

(***************************************************************************)
(* Properties of the Revision Normalizer.                                  *)
(***************************************************************************)
\* the revisions of the repository whose hash is not stored
NewRevisions ==
    SelectSeq(repo, LAMBDA r :
        \A j \in DOMAIN commit_hashes : commit_hashes[j].commit_hash # r.commit_hash)

\* the order in which handle_vcs names the tables
WriteOrder == << "commit_hashes", "authors", "committers", "commit_logs", "releases" >>

\* position in revs of the first revision carrying the email e in email_col
FirstCarrying(revs, email_col, e) ==
    CHOOSE i \in DOMAIN revs :
        /\ revs[i][email_col] = e
        /\ \A j \in DOMAIN revs : revs[j][email_col] = e => i <= j

\* the table has one row per distinct email of the revisions, in order of
\* first occurrence, each with the name of the first revision carrying it
FirstNameWins(table, revs, name_col, email_col) ==
    LET emails == {revs[i][email_col] : i \in DOMAIN revs}
    IN  /\ \A e \in emails :
              Cardinality({k \in DOMAIN table : table[k][email_col] = e}) = 1
        /\ \A k \in DOMAIN table :
              /\ table[k][email_col] \in emails
              /\ table[k][name_col] =
                    revs[FirstCarrying(revs, email_col, table[k][email_col])][name_col]
        /\ \A k, l \in DOMAIN table :
              k < l => FirstCarrying(revs, email_col, table[k][email_col])
                         < FirstCarrying(revs, email_col, table[l][email_col])

\* C13: a Normalizer run yields an Author table, and likewise a Committer
\* table, with exactly one row per distinct email of the revisions that were
\* not filtered out, in order of first occurrence, the name stored for an
\* email being the name on the first such revision carrying it
Claim_C13 ==
    [][handle_vcs =>
        /\ pc' = "vcs"
        /\ FirstNameWins(data'.authors, NewRevisions, "author", "author_email")
        /\ FirstNameWins(data'.committers, NewRevisions,
                         "committer", "committer_email") ]_vars

\* the tags of the repository that resolve to a commit that is not stored
ResolvingTags ==
    SelectSeq(tags, LAMBDA h :
        \E k \in DOMAIN NewRevisions : NewRevisions[k].commit_hash = h)

\* the releases frame has one row per resolving tag, in tag order, holding
\* the label of the commit_hashes row of the tag's commit
ReleasesResolve ==
    /\ Len(data.releases) = Len(ResolvingTags)
    /\ \A r \in DOMAIN data.releases :
          /\ data.releases[r].commit_hash_id # NaN
          /\ \E k \in DOMAIN data.commit_hashes :
                /\ data.commit_hashes[k].index = data.releases[r].commit_hash_id
                /\ data.commit_hashes[k].commit_hash = ResolvingTags[r]

\* C15: a tag that resolves to no commit, or to a commit that is not in the
\* run's CommitHash table, produces no Release row and no error: every run
\* of the Normalizer completes, and every Release row it outputs holds the
\* integer index of an existing CommitHash row, that of the tag's commit
Claim_C15 ==
    [][(handle_vcs /\ tags # << >>) =>
            (pc' = "vcs" /\ ReleasesResolve')]_vars

\* the revision of the repository a commit_logs row of the frames describes
RevisionOf(row) ==
    LET h == data.commit_hashes[
                 CHOOSE k \in DOMAIN data.commit_hashes :
                     data.commit_hashes[k].index = row.commit_hash_id].commit_hash
    IN  repo[CHOOSE i \in DOMAIN repo : repo[i].commit_hash = h]

\* the list holds one reference for every value, in the order of the values:
\* each is the label of the row of df holding the value or, when no row of
\* the frame holds it, null; the list of no values is the one null reference
ListMatches(list, values, df, col) ==
    IF values = << >>
    THEN list = << [f \in {col} |-> NaN] >>
    ELSE /\ Len(list) = Len(values)
         /\ \A k \in DOMAIN values :
               \/ /\ list[k][col] = NaN
                  /\ \A j \in DOMAIN df : df[j][col] # values[k]
               \/ \E j \in DOMAIN df :
                     /\ df[j].index = list[k][col]
                     /\ df[j][col] = values[k]

\* C26: in every CommitLog row the helper functions build, the co-author
\* list and the parent list are not empty: a revision without co-authors, or
\* without parents, gets the one-element list holding a null reference, a
\* revision with n >= 1 of them a list of exactly n references in the
\* original order
Thm_C26 ==
    pc = "frames" =>
        \A k \in DOMAIN data.commit_logs :
            /\ data.commit_logs[k].co_author_ids.json # << >>
            /\ data.commit_logs[k].parent_hash_ids.json # << >>
            /\ ListMatches(data.commit_logs[k].co_author_ids.json,
                           RevisionOf(data.commit_logs[k]).co_author_emails,
                           data.authors, "author_email")
            /\ ListMatches(data.commit_logs[k].parent_hash_ids.json,
                           RevisionOf(data.commit_logs[k]).parents,
                           data.commit_hashes, "commit_hash")

\* the helpers have built the rows of a root commit without co-authors and
\* of a merge commit with two co-authors, one parent of which is not in the
\* commit_hashes frame
Wit_C26 ==
    /\ pc = "frames"
    /\ \E k \in DOMAIN data.commit_logs :
          /\ RevisionOf(data.commit_logs[k]).parents = << >>
          /\ RevisionOf(data.commit_logs[k]).co_authors = << >>
    /\ \E k \in DOMAIN data.commit_logs :
          /\ Len(data.commit_logs[k].parent_hash_ids.json) = 2
          /\ Len(data.commit_logs[k].co_author_ids.json) = 2
          /\ data.commit_logs[k].parent_hash_ids.json[1].commit_hash = NaN
          /\ data.commit_logs[k].parent_hash_ids.json[2].commit_hash # NaN

\* no two rows of the table hold the same value in the column
UniqueIn(table, column) ==
    \A i, j \in DOMAIN table : i # j => table[i][column] # table[j][column]

\* C27: whatever frames have been written to the store, the persisted Author
\* table and the persisted Committer table each hold at most one row per
\* email, also when an email the store holds comes again in the frames of
\* new commits
Thm_C27 ==
    /\ UniqueIn(authors, "author_email")
    /\ UniqueIn(committers, "committer_email")

\* the authors and committers frames of new commits, which carry emails the
\* store holds, have been written next to a new email
Wit_C27 ==
    /\ \E k \in DOMAIN write_log : write_log[k].table = "authors"
    /\ \E k \in DOMAIN write_log : write_log[k].table = "committers"
    /\ authors # << >>
    /\ Len(data.authors) >= 2
    /\ \E i \in DOMAIN authors : \E j \in DOMAIN data.authors :
          authors[i].author_email = data.authors[j].author_email
    /\ \E i \in DOMAIN committers : \E j \in DOMAIN data.committers :
          committers[i].committer_email = data.committers[j].committer_email
    /\ Len(commit_hashes) < Len(repo)
    /\ \E k \in DOMAIN write_log :
          write_log[k].table = "authors" /\ write_log[k].result = "False"

(***************************************************************************)
(* Properties of the size and productivity stages.                         *)
(***************************************************************************)
CommitDay(i) == DayOf(commit_logs[i].committed_datetime)
CommitSize(i) == scc_runs[commit_hashes[i].commit_hash][1].code
Today == DayOf(now)
CommitsOnDay(d) == {i \in DOMAIN commit_logs : CommitDay(i) = d}
LastCommitOnDay(d) ==
    CHOOSE i \in CommitsOnDay(d) : \A j \in CommitsOnDay(d) : j <= i
FirstCommitDay == CommitDay(1)
EarliestCommitDay ==
    CHOOSE d \in {CommitDay(i) : i \in DOMAIN commit_logs} :
        \A i \in DOMAIN commit_logs : d <= CommitDay(i)
DaysNonDecreasing ==
    \A i, j \in DOMAIN commit_logs : i <= j => CommitDay(i) <= CommitDay(j)

\* the object of the class has written its table
Written(class) ==
    \/ metric.class = class /\ pc = "done"
    \/ StageOf(metric.class) > StageOf(class) /\ StageOf(class) > 0

\* ProjectProductivityPerDay.compute has been called and has returned or raised
PerDayComputed ==
    metric.class = "ProjectProductivityPerDay" /\ pc \in {"write", "raised"}

\* project_size_per_day holds exactly the days first..Today, in order, once each
SizePerDayCoversFrom(first) ==
    /\ Len(project_size_per_day) = Today - first + 1
    /\ \A k \in DOMAIN project_size_per_day :
          project_size_per_day[k].date = DayStart(first + k - 1)

\* C1: once ProjectSizePerDay has written its table, the table holds exactly one row
\* for each calendar day from the first commit's day through today and no
\* other row; the first commit's day is read either as the day of the first
\* commit of the history or as the earliest commit day
Claim_C1 ==
    Written("ProjectSizePerDay") =>
        \/ SizePerDayCoversFrom(FirstCommitDay)
        \/ SizePerDayCoversFrom(EarliestCommitDay)

\* C5: the per-commit productivity table has one row per per-commit size row,
\* with that row's commit reference, a delta of 0 in the first row and the
\* difference from the previous commit's size in every other row
Thm_C5 ==
    Written("ProjectProductivityPerCommit") =>
        /\ Len(project_productivity_per_commit) = Len(project_size_per_commit)
        /\ \A i \in DOMAIN project_size_per_commit :
              /\ project_productivity_per_commit[i].commit_hash_id
                    = project_size_per_commit[i].commit_hash_id
              /\ project_productivity_per_commit[i].delta_code
                    = IF i = 1 THEN 0
                      ELSE project_size_per_commit[i].code
                              - project_size_per_commit[i - 1].code

\* a run over three or more commits whose size went up and went down
Wit_C5 ==
    /\ Written("ProjectProductivityPerCommit")
    /\ Len(project_productivity_per_commit) >= 3
    /\ \E i, j \in DOMAIN project_productivity_per_commit :
          /\ i > 1 /\ j > 1
          /\ project_productivity_per_commit[i].delta_code > 0
          /\ project_productivity_per_commit[j].delta_code < 0

\* C6: the per-day productivity ProjectProductivityPerDay computes is the
\* day-over-day first difference of the flood-filled ProjectSizePerDay
\* series: one row per size row, the first delta 0, every other delta the
\* size of the day minus the size of the day before
Claim_C6 ==
    PerDayComputed =>
        /\ Len(metric.computed_data) = Len(project_size_per_day)
        /\ \A i \in DOMAIN project_size_per_day :
              /\ metric.computed_data[i].date = project_size_per_day[i].date
              /\ metric.computed_data[i].delta_code
                    = IF i = 1 THEN 0
                      ELSE project_size_per_day[i].code
                              - project_size_per_day[i - 1].code

\* C7: in the scenario (sizes 10, 15, 20 on day 1, 25 on day 4, today day 4)
\* ProjectSizePerDay.code is 20, 20, 20, 25 and
\* the delta_code ProjectProductivityPerDay computes is 0, 0, 0, 5
Claim_C7 ==
    ( /\ PerDayComputed
      /\ Today = 4
      /\ [i \in DOMAIN commit_logs |-> CommitDay(i)] = << 1, 1, 1, 4 >>
      /\ [i \in DOMAIN commit_logs |-> CommitSize(i)] = << 10, 15, 20, 25 >> )
    =>
        /\ [i \in DOMAIN project_size_per_day |-> project_size_per_day[i].code]
              = << 20, 20, 20, 25 >>
        /\ [i \in DOMAIN metric.computed_data |->
                metric.computed_data[i].delta_code]
              = << 0, 0, 0, 5 >>

RECURSIVE SumOfSizes(_)
SumOfSizes(S) ==
    IF S = {} THEN 0
    ELSE LET i == CHOOSE x \in S : TRUE
         IN  CommitSize(i) + SumOfSizes(S \ {i})

\* C8: the ProjectSizePerDay value of a day that has commits is the size of
\* the last commit of that day in commit order, and not the sum of the sizes
\* of the day's commits
Thm_C8 ==
    Written("ProjectSizePerDay") =>
        \A k \in DOMAIN project_size_per_day :
            LET d == DayOf(project_size_per_day[k].date)
            IN  CommitsOnDay(d) # {} =>
                  /\ project_size_per_day[k].code = CommitSize(LastCommitOnDay(d))
                  /\ Cardinality(CommitsOnDay(d)) >= 2 =>
                        project_size_per_day[k].code # SumOfSizes(CommitsOnDay(d))

\* a day of the table with two or more commits, the last one not the largest
Wit_C8 ==
    /\ Written("ProjectSizePerDay")
    /\ \E k \in DOMAIN project_size_per_day :
          LET d == DayOf(project_size_per_day[k].date)
          IN  /\ Cardinality(CommitsOnDay(d)) >= 2
              /\ \E i \in CommitsOnDay(d) :
                    CommitSize(i) > CommitSize(LastCommitOnDay(d))

\* the per-day productivity of day d in the frame ProjectProductivityPerDay
\* computes: the delta of the day's row, 0 when the frame has no row for
\* the day
ProductivityOn(d) ==
    LET rows == {k \in DOMAIN metric.computed_data :
                    metric.computed_data[k].date = DayStart(d)}
    IN  IF rows = {} THEN 0
        ELSE metric.computed_data[CHOOSE k \in rows : TRUE].delta_code

\* the ProjectSizePerDay value of day d
SizeOn(d) ==
    project_size_per_day[CHOOSE k \in DOMAIN project_size_per_day :
        project_size_per_day[k].date = DayStart(d)].code

\* C29: when the commit days are non-decreasing in commit order, on every
\* day after the first commit's day the sum of the per-commit deltas of the
\* day's commits, as ProjectProductivityPerDay.compute assigns it, equals the day-over-day difference of the ProjectSizePerDay
\* series (0 on a day without commits); on the first day the sum is the size
\* of the day's last commit minus the size of the first commit
Thm_C29 ==
    (PerDayComputed /\ DaysNonDecreasing) =>
        /\ \A d \in (FirstCommitDay + 1)..Today :
              /\ ProductivityOn(d) = SizeOn(d) - SizeOn(d - 1)
              /\ CommitsOnDay(d) = {} => ProductivityOn(d) = 0
        /\ ProductivityOn(FirstCommitDay) =
              CommitSize(LastCommitOnDay(FirstCommitDay)) - CommitSize(1)

\* a first day whose commits differ in size, then a day without commits,
\* then a day whose commit changes the size
Wit_C29 ==
    /\ PerDayComputed
    /\ DaysNonDecreasing
    /\ ProductivityOn(FirstCommitDay) # 0
    /\ \E d \in (FirstCommitDay + 1)..Today : CommitsOnDay(d) = {}
    /\ \E d \in (FirstCommitDay + 1)..Today :
          CommitsOnDay(d) # {} /\ ProductivityOn(d) # 0

(***************************************************************************)
(* Properties of the Issue Spoilage Engine.                                *)
(***************************************************************************)
IssueCreatedDay(i) == DayOf(issues[i].created_at)
IssueClosedDay(i) == DayOf(issues[i].closed_at)
IssueIsOpen(i) == issues[i].closed_at = NaN
SpoilageFirstDay == DayOf(MinDate(project_size_per_day))

\* C9: when every issue of the store was created and closed on one and the
\* same calendar day, every row of the spoilage table counts exactly the
\* issues of its day: each such issue adds 1 to its own day and 0 to every
\* other day
Claim_C9 ==
    ( /\ pc = "done"
      /\ issues # << >>
      /\ \A i \in DOMAIN issues :
            ~IssueIsOpen(i) /\ IssueCreatedDay(i) = IssueClosedDay(i) )
    =>
        \A k \in DOMAIN issue_spoilage_per_day :
            issue_spoilage_per_day[k].open_issues =
                Cardinality({i \in DOMAIN issues :
                    DayStart(IssueCreatedDay(i)) = issue_spoilage_per_day[k].start})

\* C10: when every issue of the store is still open, every day from the
\* first day of the history through today has a spoilage row, and the row
\* counts exactly the issues created on or before that day
Claim_C10 ==
    ( /\ pc = "done"
      /\ issues # << >>
      /\ \A i \in DOMAIN issues : IssueIsOpen(i) )
    =>
        \A d \in SpoilageFirstDay..Today :
            \E k \in DOMAIN issue_spoilage_per_day :
                /\ issue_spoilage_per_day[k].start = DayStart(d)
                /\ issue_spoilage_per_day[k].open_issues =
                      Cardinality({i \in DOMAIN issues : IssueCreatedDay(i) <= d})

\* C11: in the scenario (history starting on day 1, today = day 5, issue A
\* created on day 1 and closed on day 3, issue B created on day 2 and still
\* open) the spoilage table has one row for each of the days 1 to 5 and
\* their open_issues are 1, 2, 2, 1, 1
Claim_C11 ==
    ( /\ pc = "done"
      /\ SpoilageFirstDay = 1 /\ Today = 5
      /\ Len(issues) = 2
      /\ IssueCreatedDay(1) = 1 /\ ~IssueIsOpen(1) /\ IssueClosedDay(1) = 3
      /\ IssueCreatedDay(2) = 2 /\ IssueIsOpen(2) )
    =>
        [k \in DOMAIN issue_spoilage_per_day |->
            issue_spoilage_per_day[k].open_issues] = << 1, 2, 2, 1, 1 >>

\* C24: whatever the issues, the spoilage table has exactly one row for
\* every calendar day from the first commit's day through today, today
\* included, in day order, and the interval of each row is
\* [day 00:00:00, day 23:59:59]
Claim_C24 ==
    pc = "done" =>
        /\ Len(issue_spoilage_per_day) = Today - SpoilageFirstDay + 1
        /\ \A k \in DOMAIN issue_spoilage_per_day :
              /\ issue_spoilage_per_day[k].start = DayStart(SpoilageFirstDay + k - 1)
              /\ issue_spoilage_per_day[k].end =
                    DayStart(SpoilageFirstDay + k - 1) + (SecondsPerDay - 1)

\* the day an issue's interval starts and the day it ends: the created day,
\* and the closed day or, for an open issue, today
IssueStartDay(i) == IssueCreatedDay(i)
IssueEndDay(i) == IF IssueIsOpen(i) THEN Today ELSE IssueClosedDay(i)

\* C30: in every row of the spoilage table, of day d, open_issues is the
\* number of issues whose interval [c, e] has c <= d < e, so the day an
\* issue was closed on and, for an open issue, today are not counted, and
\* open_issues lies between 0 and the number of issues
Thm_C30 ==
    pc = "done" =>
        \A k \in DOMAIN issue_spoilage_per_day :
            LET d == DayOf(issue_spoilage_per_day[k].start)
            IN  /\ issue_spoilage_per_day[k].open_issues =
                      Cardinality({i \in DOMAIN issues :
                          IssueStartDay(i) <= d /\ d < IssueEndDay(i)})
                /\ issue_spoilage_per_day[k].open_issues >= 0
                /\ issue_spoilage_per_day[k].open_issues <= Len(issues)

\* the table has a row for the day a counted issue was closed on, and that
\* row does not count it while the row of the day before does
Wit_C30 ==
    /\ pc = "done"
    /\ Len(issues) = 1
    /\ ~IssueIsOpen(1)
    /\ \E k \in DOMAIN issue_spoilage_per_day :
          /\ k > 1
          /\ issue_spoilage_per_day[k].start = DayStart(IssueClosedDay(1))
          /\ issue_spoilage_per_day[k].open_issues = 0
          /\ issue_spoilage_per_day[k - 1].open_issues = 1

(***************************************************************************)
(* Properties of the Issue Density Combiner.                               *)
(***************************************************************************)

\* the stored size rows of the date
SizeRowsOn(date) ==
    {i \in DOMAIN project_size_per_day : project_size_per_day[i].date = date}

\* the size the k-th density row is to carry: that of the size row of its
\* date, otherwise that of the nearest earlier density row, NaN when there
\* is none
RECURSIVE ExpectedCode(_)
ExpectedCode(k) ==
    IF k = 0 THEN NaN
    ELSE IF SizeRowsOn(issue_spoilage_per_day[k].start) # {}
         THEN project_size_per_day[
                  CHOOSE i \in SizeRowsOn(issue_spoilage_per_day[k].start) : TRUE].code
         ELSE ExpectedCode(k - 1)

\* the frame is the output the Combiner is to give for the stored tables: one
\* row per spoilage row, in the same order and with start, end and
\* open_issues unchanged, the size of each row that of the ProjectSizePerDay
\* row of the same date when there is one, otherwise that of the nearest
\* earlier row that has one, and no ratio column
DensityRows(df) ==
    /\ Len(df) = Len(issue_spoilage_per_day)
    /\ \A k \in DOMAIN df :
          /\ df[k].start = issue_spoilage_per_day[k].start
          /\ df[k].end = issue_spoilage_per_day[k].end
          /\ df[k].open_issues = issue_spoilage_per_day[k].open_issues
          /\ df[k].code = ExpectedCode(k)
          /\ DOMAIN df[k] = {"index", "start", "end", "open_issues", "code"}

\* C25: a run of the Issue Density Combiner completes and outputs exactly one
\* row per spoilage row, in the same order and with start, end and
\* open_issues unchanged; the size fields of each row are those of the
\* ProjectSizePerDay row of the same date when there is one, otherwise those
\* of the nearest earlier output row that has them; no ratio column is added
Claim_C25 ==
    [][handle_issue_density =>
        /\ pc' = "done"
        /\ metric'.class = "IssueDensityPerDay"
        /\ DensityRows(metric'.computed_data) ]_vars

(***************************************************************************)
(* Properties of the Bus Factor Estimator.                                 *)
(***************************************************************************)
\* the stored per-commit deltas of the commits committed on day d
DeltasOnDay(d) ==
    LET rows == merge_commit_logs(
                    read_table(project_productivity_per_commit), commit_logs)
    IN  SelectSeq(rows, LAMBDA r : DayOf(r.committed_datetime) = d)

BusRowsOnDay(d) == SelectSeq(bus_factor, LAMBDA r : r.date = DayStart(d))

SameDirection(rows) ==
    \/ \A i \in DOMAIN rows : rows[i].delta_code >= 0
    \/ \A i \in DOMAIN rows : rows[i].delta_code <= 0

\* C12: for every day with at least one commit, the delta_code of the day's
\* bus factor rows (one per committer) sums to at least the absolute value
\* of the sum of the day's signed per-commit deltas, and to exactly that
\* value when and only when the day's per-commit deltas all have the same
\* sign or are zero
Thm_C12 ==
    pc = "done" =>
        \A d \in 1..MaxDay :
            DeltasOnDay(d) # << >> =>
                LET total  == SumDeltaCode(BusRowsOnDay(d))
                    signed == SumDeltaCode(DeltasOnDay(d))
                    bound  == IF signed < 0 THEN -signed ELSE signed
                IN  /\ total >= bound
                    /\ (total = bound) <=> SameDirection(DeltasOnDay(d))
                    /\ \A c \in CommitterIds :
                          Cardinality({k \in DOMAIN BusRowsOnDay(d) :
                              BusRowsOnDay(d)[k].committer_id = c})
                          = IF \E i \in DOMAIN DeltasOnDay(d) :
                                   DeltasOnDay(d)[i].committer_id = c
                            THEN 1 ELSE 0

\* a day on which two committers moved the code in opposite directions
Wit_C12 ==
    /\ pc = "done"
    /\ \E d \in 1..MaxDay :
          /\ Len(BusRowsOnDay(d)) = 2
          /\ ~SameDirection(DeltasOnDay(d))
          /\ SumDeltaCode(BusRowsOnDay(d)) > SumDeltaCode(DeltasOnDay(d))

\* the stored per-commit deltas of the commits committer c committed on day d
DeltasOnDayBy(d, c) == SelectSeq(DeltasOnDay(d), LAMBDA r : r.committer_id = c)

\* the bus factor rows of day d that name committer c
BusRowsOnDayBy(d, c) == SelectSeq(BusRowsOnDay(d), LAMBDA r : r.committer_id = c)

\* the sum of the absolute values of the delta_code of the rows, one row at
\* a time
RECURSIVE AbsPerCommit(_)
AbsPerCommit(rows) ==
    IF rows = << >> THEN 0
    ELSE (IF rows[1].delta_code < 0 THEN -rows[1].delta_code
          ELSE rows[1].delta_code) + AbsPerCommit(Tail(rows))

\* C22: the bus factor table has exactly one row for each (day, committer)
\* pair with at least one commit on that day and none for a pair without,
\* and the metric of the row is the sum over that committer's commits of the
\* day of the absolute value of the per-commit delta
Thm_C22 ==
    pc = "done" =>
        \A d \in 1..MaxDay : \A c \in CommitterIds :
            IF DeltasOnDayBy(d, c) = << >>
            THEN BusRowsOnDayBy(d, c) = << >>
            ELSE /\ Len(BusRowsOnDayBy(d, c)) = 1
                 /\ BusRowsOnDayBy(d, c)[1].delta_code
                       = AbsPerCommit(DeltasOnDayBy(d, c))

\* one committer grew and shrank the code on the same day, and another
\* committer has a row of their own on that day
Wit_C22 ==
    /\ pc = "done"
    /\ \E d \in 1..MaxDay : \E c \in CommitterIds :
          /\ \E i, j \in DOMAIN DeltasOnDayBy(d, c) :
                /\ DeltasOnDayBy(d, c)[i].delta_code > 0
                /\ DeltasOnDayBy(d, c)[j].delta_code < 0
          /\ BusRowsOnDayBy(d, c)[1].delta_code > 0
          /\ Len(BusRowsOnDay(d)) = 2
          /\ \E c2 \in CommitterIds \ {c} :
                /\ DeltasOnDayBy(d, c2) # << >>
                /\ Len(BusRowsOnDayBy(d, c2)) = 1

\* the first and the last day with a commit
CommitDays == {d \in 1..MaxDay : DeltasOnDay(d) # << >>}

\* C23: every day between the first and the last commit day that has no
\* commit has exactly one row, with committer -1 and metric -1; a day with
\* commits has no such row
Thm_C23 ==
    pc = "done" =>
        \A d \in 1..MaxDay :
            IF DeltasOnDay(d) # << >>
            THEN \A k \in DOMAIN BusRowsOnDay(d) :
                    /\ BusRowsOnDay(d)[k].committer_id # -1
                    /\ BusRowsOnDay(d)[k].delta_code >= 0
            ELSE IF \E lo, hi \in CommitDays : lo < d /\ d < hi
                 THEN /\ Len(BusRowsOnDay(d)) = 1
                      /\ BusRowsOnDay(d)[1].committer_id = -1
                      /\ BusRowsOnDay(d)[1].delta_code = -1
                 ELSE BusRowsOnDay(d) = << >>

\* a day without commits between two commit days
Wit_C23 ==
    /\ pc = "done"
    /\ \E d \in 1..MaxDay :
          /\ DeltasOnDay(d) = << >>
          /\ \E lo, hi \in CommitDays : lo < d /\ d < hi
          /\ Len(BusRowsOnDay(d)) = 1
          /\ Len(bus_factor) >= 3

(***************************************************************************)
(* Properties of the per-commit loop.                                      *)
(***************************************************************************)
CallsNamed(name) == SelectSeq(vcs_calls, LAMBDA c : c.call = name)

\* the per-file step has returned or has been left by an exception
LoopExited == pc \in {"raised", "concat", "done"}

\* a checkout_revision call of the loop has succeeded: scc has been run on
\* the revision it checked out
CheckedOutSome == CallsNamed("scc.run") # << >>

\* C14: once the per-commit loop has checked out a revision, the step does
\* not return or fail before checkout_most_recent_revision has been called,
\* whichever way it is left
Claim_C14 ==
    ( /\ LoopExited
      /\ CheckedOutSome )
    =>
        \E j \in DOMAIN vcs_calls :
            /\ vcs_calls[j].call = "checkout_most_recent_revision"
            /\ \A i \in DOMAIN vcs_calls :
                  vcs_calls[i].call = "checkout_revision" => i < j

\* the commit_hashes rows in insertion order
StoredRows == read_table(commit_hashes)

\* C20: the per-commit loop takes the CommitHash rows in insertion order;
\* the checkout of a row's commit comes right before the line-counter
\* invocation for it, with no other checkout between the two; every file row
\* of that invocation is tagged with the row's table index, so every
\* FileSizeRecord names the revision that was checked out when it was
\* measured
Thm_C20 ==
    /\ \A k \in DOMAIN CallsNamed("checkout_revision") :
          CallsNamed("checkout_revision")[k].revision = StoredRows[k].commit_hash
    /\ \A j \in DOMAIN vcs_calls :
          vcs_calls[j].call = "scc.run" =>
              /\ j > 1
              /\ vcs_calls[j - 1] = Call("checkout_revision", vcs_calls[j].revision)
    /\ \A k \in DOMAIN size_frames :
          /\ CallsNamed("scc.run")[k].revision = StoredRows[k].commit_hash
          /\ Len(size_frames[k]) = Len(scc_runs[StoredRows[k].commit_hash])
          /\ \A f \in DOMAIN size_frames[k] :
                /\ size_frames[k][f].commit_hash_id = StoredRows[k].index
                /\ size_frames[k][f].code =
                      scc_runs[StoredRows[k].commit_hash][f].code
    /\ pc = "done" =>
          /\ Len(file_size_per_commit) = Len(concat(size_frames))
          /\ \A r \in DOMAIN file_size_per_commit :
                \E k \in DOMAIN StoredRows :
                    /\ StoredRows[k].index = file_size_per_commit[r].commit_hash_id
                    /\ \E f \in DOMAIN scc_runs[StoredRows[k].commit_hash] :
                          scc_runs[StoredRows[k].commit_hash][f].code =
                              file_size_per_commit[r].code

\* the loop went through two or more commits, one of them with two files,
\* and the records are stored
Wit_C20 ==
    /\ pc = "done"
    /\ Len(commit_hashes) >= 2
    /\ Len(CallsNamed("scc.run")) = Len(commit_hashes)
    /\ \E k \in DOMAIN size_frames : Len(size_frames[k]) = 2
    /\ Len(file_size_per_commit) >= 3

\* C21: after the per-commit loop has completed normally the working tree is
\* checked out at the most recent revision of the repository, whatever rows
\* were iterated, also when the CommitHash table does not end with the
\* newest commit
Claim_C21 ==
    pc \in {"concat", "done"} => checked_out = branch_tip

(***************************************************************************)
(* Properties of the table writes of the Normalizer stage.                 *)
(***************************************************************************)

\* the rows of a frame collide with a primary key of the table
Clash(table, df) ==
    \E i \in DOMAIN df : \E j \in DOMAIN table : df[i].index = table[j].id

\* C17: a write_df call whose rows collide with a primary key of the table
\* returns False instead of raising and leaves the rows of the table
\* unchanged; a call given a row that fails validation raises and has
\* appended no row; every other call returns True and has appended its rows
Thm_C17 ==
    [][DB_write_df =>
        \A t \in VcsTables :
            write_log'[Len(write_log')].table = t =>
                LET res   == write_log'[Len(write_log')].result
                    df    == data[t]
                    valid == validate_df(ModelOf(t), df)
                IN  /\ ~valid => /\ res = "raised"
                                 /\ TableOf(t)' = TableOf(t)
                    /\ (valid /\ Clash(TableOf(t), df)) =>
                          /\ res = "False"
                          /\ pc' = pc
                          /\ TableOf(t)' = TableOf(t)
                    /\ (valid /\ ~Clash(TableOf(t), df)) =>
                          /\ res = "True"
                          /\ TableOf(t)' =
                                TableOf(t) \o [i \in DOMAIN df |-> ToSqlRow(df[i])]
    ]_vars

\* one call returned False for a key collision of a frame of several rows,
\* one call appended its rows, and a call raised for a row that fails
\* validation
Wit_C17 ==
    /\ pc = "raised"
    /\ \E k \in DOMAIN write_log :
          /\ write_log[k].result = "False"
          /\ Len(data[write_log[k].table]) >= 2
    /\ \E k \in DOMAIN write_log :
          /\ write_log[k].result = "True"
          /\ data[write_log[k].table] # << >>
    /\ write_log[Len(write_log)].result = "raised"

\* C19: every Normalizer run issues its five write_df calls, in the order
\* CommitHash, Author, Committer, CommitLog, Release, each table once
Claim_C19 ==
    [][handle_vcs =>
        /\ Len(write_log') = Len(WriteOrder)
        /\ \A k \in DOMAIN write_log' : write_log'[k].table = WriteOrder[k]
    ]_vars

(***************************************************************************)
(* Properties of the issue fetch stage.                                    *)
(***************************************************************************)

\* the requests that got a non-success response
FailedRequests ==
    {k \in DOMAIN page_requests : page_requests[k].status # VALID_RESPONSE_CODE}

\* the issue ids of the pages fetched by the successful requests
FetchedIssueIds ==
    LET fetched == pd_concat(SelectSeq(issue_pages, LAMBDA f : f.rows # << >>)).rows
    IN  [i \in DOMAIN fetched |-> fetched[i].issue_id]

\* the fetch loop has been left
FetchLoopLeft == ~has_next_page \/ pc \in {"raised", "done"}

\* C18: when the tracker answers a page request, the first one included,
\* with a non-success response, the page result is empty with has_more
\* False, no further page is requested, and the stage completes without
\* raising, storing exactly the issues fetched before the failure
Claim_C18 ==
    FailedRequests # {} =>
        /\ FailedRequests = {Len(page_requests)}
        /\ issue_pages[Len(issue_pages)] = EmptyDataFrame
        /\ ~has_next_page
        /\ pc # "raised"
        /\ pc = "done" =>
              /\ Len(issue_ids) = Len(FetchedIssueIds)
              /\ \A i \in DOMAIN issue_ids :
                    /\ issue_ids[i].issue_id = FetchedIssueIds[i]
                    /\ issues[i].issue_id_key = issue_ids[i].id

\* the part of C18 the code keeps: the same with a failure after the first
\* page
FailSoftAfterFirstPage ==
    (FailedRequests # {} /\ Len(page_requests) > 1) =>
        /\ FailedRequests = {Len(page_requests)}
        /\ issue_pages[Len(issue_pages)] = EmptyDataFrame
        /\ ~has_next_page
        /\ pc # "raised"
        /\ pc = "done" =>
              /\ Len(issue_ids) = Len(FetchedIssueIds)
              /\ \A i \in DOMAIN issue_ids :
                    /\ issue_ids[i].issue_id = FetchedIssueIds[i]
                    /\ issues[i].issue_id_key = issue_ids[i].id

====
